---------------------------- MODULE Spec2Model ----------------------------
(***************************************************************************)
(* localRAG-api: the model-resource cache (models.ts), the module-level    *)
(* model singletons of the persisted pipeline (embeddings.ts,              *)
(* reranking.ts) and the chunker (rag.ts), as state machines.              *)
(*                                                                         *)
(* Node runs every handler on one thread: code between two `await`s is one *)
(* atomic step, and each `await` of an external call (llama.loadModel,     *)
(* createEmbeddingContext, model.dispose, ...) is a suspension point at     *)
(* which any other handler or timer callback may run.  Every action below  *)
(* is one such atomic block.                                               *)
(***************************************************************************)
EXTENDS Integers, Sequences, FiniteSets, TLC

(***************************************************************************)
(* Bounds of the model.                                                    *)
(***************************************************************************)
MaxProcs == 2
MaxSweeps == 1
MaxLoads == 2
MaxTicks == 1

Procs == 1..MaxProcs
Sweeps == 1..MaxSweeps
Handles == 1..MaxLoads

(***************************************************************************)
(* types.ts / config.ts                                                    *)
(***************************************************************************)
ModelType == {"chat", "embedding", "reranker"}

MODEL_DIRS ==
  [chat |-> "./models/chat",
   embedding |-> "./models/embedding",
   reranker |-> "./models/reranker"]

\* Object.values(MODEL_DIRS): the directories in declaration order.
ModelDirValues == <<MODEL_DIRS["chat"], MODEL_DIRS["embedding"], MODEL_DIRS["reranker"]>>

(***************************************************************************)
(* Model names are token sequences, so that the ".gguf" suffix test and    *)
(* the concatenations of loadModel and unloadModel are computed, not       *)
(* assumed: <<"m">> is "m", <<"m", ".gguf">> is "m.gguf".                  *)
(***************************************************************************)
GGUF == ".gguf"
ModelNames == {<<"m">>, <<"m", GGUF>>}

\* modelName.endsWith(".gguf")
EndsWithGguf(modelName) ==
  Len(modelName) > 0 /\ modelName[Len(modelName)] = GGUF

\* path.join(dir, fileName)
PathJoin(dir, fileName) == <<dir>> \o fileName

\* loadModel: the cache key derived from modelName and type.
LoadModelPath(modelName, type) ==
  PathJoin(MODEL_DIRS[type],
           IF EndsWithGguf(modelName) THEN modelName ELSE modelName \o <<GGUF>>)

\* unloadModel: the candidate key for one directory.
UnloadTestPath(dir, modelName) == PathJoin(dir, modelName \o <<GGUF>>)

Paths == {LoadModelPath(n, t) : n \in ModelNames, t \in ModelType}

\* setInterval(..., 15 * 60 * 1000) and the default maxAgeMs = 30 * 60 * 1000.
SweepIntervalMs == 15 * 60 * 1000
DefaultMaxAgeMs == 30 * 60 * 1000

\* The clock is observed every third timer period: the least number of periods
\* after which an entry that was not touched meanwhile is stale (45 min > 30 min).
ClockStepMs == 3 * SweepIntervalMs

NoEntry == [seq |-> 0, model |-> 0, embeddingContext |-> FALSE,
            rankingContext |-> FALSE, lastUsed |-> 0]
NoRet == [kind |-> "none", model |-> 0, val |-> ""]
NoPath == <<>>

VARIABLES
  now,            \* Date.now(), in ms
  loadedModels,   \* the Map: path -> ModelContext (NoEntry when absent)
  mapSeq,         \* insertions into the Map so far (its iteration order)
  hstate,         \* per LlamaModel handle: "none", "loaded", "disposing", "disposed"
  hpath,          \* per handle: the modelPath it was loaded from
  disposeCalls,   \* per handle: number of model.dispose() invocations
  loadCalls,      \* number of llama.loadModel invocations
  pc,             \* per request: where the handler is suspended
  local,          \* per request: the handler's local variables
  ret,            \* per request: the value returned (or error thrown)
  spc,            \* per sweep pass: where unloadUnusedModels is suspended
  slocal          \* per sweep pass: its local variables

cacheVars == <<now, loadedModels, mapSeq, hstate, hpath, disposeCalls, loadCalls,
               pc, local, ret, spc, slocal>>

(***************************************************************************)
(* embeddings.ts and reranking.ts: the module-level models of the          *)
(* persisted pipeline, and the calls in flight on them.                    *)
(***************************************************************************)
VARIABLES
  modelContexts,    \* embeddings.ts: the Map modelName -> {model, context}; 0 when absent
  embLoadCalls,     \* llama.loadModel invocations of initEmbeddingModel
  rerankerModel,    \* reranking.ts: the module variable (0 for null)
  rerankerContext,  \* reranking.ts: the module variable (0 for null)
  rerankLoadCalls,  \* llama.loadModel invocations of initRerankerModel
  tpc,              \* per call: where getEmbedding / rerankChunks is suspended
  tmodel            \* per call: the model its init loaded (0 for none)

singletonVars == <<modelContexts, embLoadCalls, rerankerModel, rerankerContext,
                   rerankLoadCalls, tpc, tmodel>>

(***************************************************************************)
(* rag.ts: one chunking request.                                           *)
(***************************************************************************)
VARIABLES
  text,        \* the request's text, a sequence of characters
  chunkSize,
  overlap,
  words,       \* text.split(/\s+/)
  i,           \* the loop variable of splitIntoChunks
  chunks,      \* the chunks pushed so far
  cpc,         \* where the request is
  generateContexts,  \* the request's flag
  contexts     \* chunk.context of the chunks the second loop has passed

chunkVars == <<text, chunkSize, overlap, words, i, chunks, cpc, generateContexts, contexts>>

(***************************************************************************)
(* rag.ts handleQueryChunks and db-rag.ts handleSearchChunks: one retrieve  *)
(* request, against the chunks of its body or against the table dataset.   *)
(***************************************************************************)
VARIABLES
  req,             \* the JSON body of the request
  rpc,             \* where the handler is
  dataset,         \* the rows of the table dataset
  queryEmbedding,  \* the vector the embedding model returned for the query
  similarChunks,   \* the scored chunks of the first stage
  relevance,       \* the score the ranking context gives each document
  rerankInput,     \* the documents handed to rankAndSort
  response         \* the HTTP response: status and results

retrieveVars == <<req, rpc, dataset, queryEmbedding, similarChunks, relevance,
                  rerankInput, response>>

(***************************************************************************)
(* db-rag.ts handleStoreDocument: one store request and the callbacks      *)
(* chunks.map starts, one per chunk, under Promise.all.                    *)
(***************************************************************************)
VARIABLES
  storeReq,        \* the JSON body of the store request
  storePc,         \* where the handler is
  chunkPc,         \* where the callback of each chunk is
  insertedChunks,  \* the chunks whose row is in the table dataset
  storeResponse    \* the status of the HTTP response, 0 before it

storeVars == <<storeReq, storePc, chunkPc, insertedChunks, storeResponse>>

vars == <<cacheVars, singletonVars, chunkVars, retrieveVars, storeVars>>

NoLocal == [fn |-> "none", name |-> <<>>, path |-> NoPath, type |-> "chat",
            model |-> 0, lastUsed |-> 0]
NoSLocal == [now |-> 0, cursor |-> 0, path |-> NoPath, model |-> 0]

IdleCache ==
  /\ now = 0
  /\ loadedModels = [p \in Paths |-> NoEntry]
  /\ mapSeq = 0
  /\ hstate = [h \in Handles |-> "none"]
  /\ hpath = [h \in Handles |-> NoPath]
  /\ disposeCalls = [h \in Handles |-> 0]
  /\ loadCalls = 0
  /\ pc = [p \in Procs |-> "idle"]
  /\ local = [p \in Procs |-> NoLocal]
  /\ ret = [p \in Procs |-> NoRet]
  /\ spc = [s \in Sweeps |-> "idle"]
  /\ slocal = [s \in Sweeps |-> NoSLocal]

MaxTasks == 3
Tasks == 1..MaxTasks

IdleSingletons ==
  /\ modelContexts = 0
  /\ embLoadCalls = 0
  /\ rerankerModel = 0
  /\ rerankerContext = 0
  /\ rerankLoadCalls = 0
  /\ tpc = [t \in Tasks |-> "idle"]
  /\ tmodel = [t \in Tasks |-> 0]

IdleChunker ==
  /\ text = <<>>
  /\ chunkSize = 1
  /\ overlap = 0
  /\ words = <<>>
  /\ i = 0
  /\ chunks = <<>>
  /\ cpc = "idle"
  /\ generateContexts = FALSE
  /\ contexts = <<>>

NoRequest == [endpoint |-> "none"]
NoResponse == [status |-> 0, error |-> "", results |-> <<>>]

IdleRetrieve ==
  /\ req = NoRequest
  /\ rpc = "idle"
  /\ dataset = <<>>
  /\ queryEmbedding = <<>>
  /\ similarChunks = <<>>
  /\ relevance = <<>>
  /\ rerankInput = <<>>
  /\ response = NoResponse

NoStoreRequest == [document |-> "", generateContexts |-> FALSE]

IdleStore ==
  /\ storeReq = NoStoreRequest
  /\ storePc = "idle"
  /\ chunkPc = <<>>
  /\ insertedChunks = {}
  /\ storeResponse = 0

\* No model is loaded and no request is in flight.
Init == IdleCache /\ IdleSingletons /\ IdleChunker /\ IdleRetrieve /\ IdleStore

(***************************************************************************)
(* The Map loadedModels.  A JavaScript Map iterates in insertion order;    *)
(* set() on a present key keeps the key's position, set() on an absent key *)
(* appends, and a live iterator visits entries appended during iteration.  *)
(* seq is the position: an iterator at cursor c visits next the entry with *)
(* the least seq greater than c.                                           *)
(***************************************************************************)
Has(map, path) == path \in Paths /\ map[path] # NoEntry

MapSet(map, path, context) ==
  [map EXCEPT ![path] =
     [context EXCEPT !.seq = IF Has(map, path) THEN map[path].seq ELSE mapSeq + 1]]

MapDelete(map, path) ==
  IF path \in Paths THEN [map EXCEPT ![path] = NoEntry] ELSE map

Min(a, b) == IF a < b THEN a ELSE b

\* model.dispose() is invoked on handle h: disposal of a loaded model starts, and
\* the call is counted (0, 1, or 2 for "more than once").
DisposeInvoked(hs, h) == [hs EXCEPT ![h] = IF @ = "loaded" THEN "disposing" ELSE @]
DisposeCounted(calls, h) == [calls EXCEPT ![h] = Min(@ + 1, 2)]

\* Time passes.
Tick ==
  /\ now < MaxTicks * ClockStepMs
  /\ now' = now + ClockStepMs
  /\ UNCHANGED <<loadedModels, mapSeq, hstate, hpath, disposeCalls, loadCalls,
                 pc, local, ret, spc, slocal>>
  /\ UNCHANGED <<singletonVars, chunkVars, retrieveVars, storeVars>>

(***************************************************************************)
(* loadModel(modelName, type)                                              *)
(***************************************************************************)
CtxRet(h) == [kind |-> "ctx", model |-> h, val |-> ""]
ErrRet(code) == [kind |-> "err", model |-> 0, val |-> code]
BoolRet(b) == [kind |-> "bool", model |-> 0, val |-> IF b THEN "true" ELSE "false"]

\* Lines 27-35: the lookup; a hit refreshes lastUsed and returns the entry.
LoadModelHit(p, modelName, type) ==
  LET modelPath == LoadModelPath(modelName, type) IN
  /\ pc[p] = "idle"
  /\ Has(loadedModels, modelPath)
  /\ loadedModels' = [loadedModels EXCEPT ![modelPath].lastUsed = now]
  /\ ret' = [ret EXCEPT ![p] = CtxRet(loadedModels[modelPath].model)]
  /\ local' = [local EXCEPT ![p] = [NoLocal EXCEPT !.fn = "loadModel", !.path = modelPath, !.type = type]]
  /\ pc' = [pc EXCEPT ![p] = "done"]
  /\ UNCHANGED <<now, mapSeq, hstate, hpath, disposeCalls, loadCalls,
                 spc, slocal>>
  /\ UNCHANGED <<singletonVars, chunkVars, retrieveVars, storeVars>>

\* Lines 31-39: a miss invokes llama.loadModel and suspends on it.
LoadModelMiss(p, modelName, type) ==
  LET modelPath == LoadModelPath(modelName, type) IN
  /\ pc[p] = "idle"
  /\ ~Has(loadedModels, modelPath)
  /\ loadCalls < MaxLoads
  /\ loadCalls' = loadCalls + 1
  /\ local' = [local EXCEPT ![p] = [NoLocal EXCEPT !.fn = "loadModel", !.path = modelPath, !.type = type]]
  /\ ret' = [ret EXCEPT ![p] = NoRet]
  /\ pc' = [pc EXCEPT ![p] = "load_model"]
  /\ UNCHANGED <<now, loadedModels, mapSeq, hstate, hpath, disposeCalls,
                 spc, slocal>>
  /\ UNCHANGED <<singletonVars, chunkVars, retrieveVars, storeVars>>

FreshHandle == CHOOSE h \in Handles : hstate[h] = "none" /\ \A g \in Handles : hstate[g] = "none" => h <= g

\* NewContext with an embedding context created whatever the type.
NewContextAlwaysEmbedding(h, type, lastUsed) ==
  [seq |-> 0, model |-> h,
   embeddingContext |-> TRUE,
   rankingContext |-> (type = "reranker"),
   lastUsed |-> lastUsed]

\* The ModelContext of lines 41-50 for a handle, by type.
NewContext(h, type, lastUsed) ==
  [seq |-> 0, model |-> h,
   embeddingContext |-> (type = "embedding"),
   rankingContext |-> (type = "reranker"),
   lastUsed |-> lastUsed]

\* Lines 37-53: llama.loadModel resolved.  For "chat" no further await follows and
\* the context is stored; otherwise the handler suspends on create...Context().
LoadModelResolved(p) ==
  LET h == FreshHandle
      type == local[p].type
      modelPath == local[p].path IN
  /\ pc[p] = "load_model"
  /\ hstate' = [hstate EXCEPT ![h] = "loaded"]
  /\ hpath' = [hpath EXCEPT ![h] = modelPath]
  /\ IF type = "chat"
       THEN /\ loadedModels' = MapSet(loadedModels, modelPath, NewContext(h, type, now))
            /\ mapSeq' = IF Has(loadedModels, modelPath) THEN mapSeq ELSE mapSeq + 1
            /\ ret' = [ret EXCEPT ![p] = CtxRet(h)]
            /\ local' = [local EXCEPT ![p] = [@ EXCEPT !.model = h, !.lastUsed = now]]
            /\ pc' = [pc EXCEPT ![p] = "done"]
       ELSE /\ local' = [local EXCEPT ![p] = [@ EXCEPT !.model = h, !.lastUsed = now]]
            /\ pc' = [pc EXCEPT ![p] = "create_context"]
            /\ UNCHANGED <<loadedModels, mapSeq, ret>>
  /\ UNCHANGED <<now, disposeCalls, loadCalls, spc, slocal>>
  /\ UNCHANGED <<singletonVars, chunkVars, retrieveVars, storeVars>>

\* Line 37: llama.loadModel rejected (ENOENT for a missing file, or another error):
\* loadModel throws, nothing is stored.
LoadModelRejected(p, code) ==
  /\ pc[p] = "load_model"
  /\ ret' = [ret EXCEPT ![p] = ErrRet(code)]
  /\ pc' = [pc EXCEPT ![p] = "done"]
  /\ UNCHANGED <<now, loadedModels, mapSeq, hstate, hpath, disposeCalls, loadCalls,
                 local, spc, slocal>>
  /\ UNCHANGED <<singletonVars, chunkVars, retrieveVars, storeVars>>

\* Lines 46-53: create...Context() resolved; the context is stored and returned.
CreateContextResolved(p) ==
  LET modelPath == local[p].path IN
  /\ pc[p] = "create_context"
  /\ loadedModels' = MapSet(loadedModels, modelPath,
                            NewContext(local[p].model, local[p].type, local[p].lastUsed))
  /\ mapSeq' = IF Has(loadedModels, modelPath) THEN mapSeq ELSE mapSeq + 1
  /\ ret' = [ret EXCEPT ![p] = CtxRet(local[p].model)]
  /\ pc' = [pc EXCEPT ![p] = "done"]
  /\ UNCHANGED <<now, hstate, hpath, disposeCalls, loadCalls, local,
                 spc, slocal>>
  /\ UNCHANGED <<singletonVars, chunkVars, retrieveVars, storeVars>>

\* Lines 46-50: create...Context() rejected: loadModel throws, nothing is stored
\* (and the loaded LlamaModel is not disposed).
CreateContextRejected(p) ==
  /\ pc[p] = "create_context"
  /\ ret' = [ret EXCEPT ![p] = ErrRet("error")]
  /\ pc' = [pc EXCEPT ![p] = "done"]
  /\ UNCHANGED <<now, loadedModels, mapSeq, hstate, hpath, disposeCalls, loadCalls,
                 local, spc, slocal>>
  /\ UNCHANGED <<singletonVars, chunkVars, retrieveVars, storeVars>>

\* The caller takes the result: the request is over.
Return(p) ==
  /\ pc[p] = "done"
  /\ pc' = [pc EXCEPT ![p] = "idle"]
  /\ local' = [local EXCEPT ![p] = NoLocal]
  /\ ret' = [ret EXCEPT ![p] = NoRet]
  /\ UNCHANGED <<now, loadedModels, mapSeq, hstate, hpath, disposeCalls, loadCalls,
                 spc, slocal>>
  /\ UNCHANGED <<singletonVars, chunkVars, retrieveVars, storeVars>>

(***************************************************************************)
(* unloadModel(modelName)                                                  *)
(***************************************************************************)
\* Lines 70-77: the first directory, in Object.values order, whose candidate
\* path is a key of the Map; 0 when there is none.
RECURSIVE FindLoadedDir(_, _)
FindLoadedDir(modelName, d) ==
  IF d > Len(ModelDirValues) THEN 0
  ELSE IF Has(loadedModels, UnloadTestPath(ModelDirValues[d], modelName)) THEN d
  ELSE FindLoadedDir(modelName, d + 1)

\* Lines 79-81: no key matches: unloadModel returns false.
UnloadModelAbsent(p, modelName) ==
  /\ pc[p] = "idle"
  /\ FindLoadedDir(modelName, 1) = 0
  /\ ret' = [ret EXCEPT ![p] = BoolRet(FALSE)]
  /\ local' = [local EXCEPT ![p] =
                 [NoLocal EXCEPT !.fn = "unloadModel", !.name = modelName]]
  /\ pc' = [pc EXCEPT ![p] = "done"]
  /\ UNCHANGED <<now, loadedModels, mapSeq, hstate, hpath, disposeCalls, loadCalls,
                 spc, slocal>>
  /\ UNCHANGED <<singletonVars, chunkVars, retrieveVars, storeVars>>

\* UnloadModelFound that spares an entry used within the idle threshold, as the
\* sweep does: it answers false and disposes nothing.
UnloadModelFoundIdleOnly(p, modelName) ==
  LET d == FindLoadedDir(modelName, 1)
      modelPath == UnloadTestPath(ModelDirValues[d], modelName)
      modelContext == loadedModels[modelPath] IN
  /\ pc[p] = "idle"
  /\ d # 0
  /\ local' = [local EXCEPT ![p] =
                 [NoLocal EXCEPT !.fn = "unloadModel", !.name = modelName,
                                 !.path = modelPath, !.model = modelContext.model]]
  /\ IF now - modelContext.lastUsed > DefaultMaxAgeMs
       THEN /\ hstate' = DisposeInvoked(hstate, modelContext.model)
            /\ disposeCalls' = DisposeCounted(disposeCalls, modelContext.model)
            /\ ret' = [ret EXCEPT ![p] = NoRet]
            /\ pc' = [pc EXCEPT ![p] = "unload_dispose"]
       ELSE /\ ret' = [ret EXCEPT ![p] = BoolRet(FALSE)]
            /\ pc' = [pc EXCEPT ![p] = "done"]
            /\ UNCHANGED <<hstate, disposeCalls>>
  /\ UNCHANGED <<now, loadedModels, mapSeq, hpath, loadCalls, spc, slocal>>
  /\ UNCHANGED <<singletonVars, chunkVars, retrieveVars, storeVars>>

\* Lines 83-84: a key matches: dispose() is invoked on its model and awaited.
UnloadModelFound(p, modelName) ==
  LET d == FindLoadedDir(modelName, 1)
      modelPath == UnloadTestPath(ModelDirValues[d], modelName)
      modelContext == loadedModels[modelPath] IN
  /\ pc[p] = "idle"
  /\ d # 0
  /\ hstate' = DisposeInvoked(hstate, modelContext.model)
  /\ disposeCalls' = DisposeCounted(disposeCalls, modelContext.model)
  /\ local' = [local EXCEPT ![p] =
                 [NoLocal EXCEPT !.fn = "unloadModel", !.name = modelName,
                                 !.path = modelPath, !.model = modelContext.model]]
  /\ ret' = [ret EXCEPT ![p] = NoRet]
  /\ pc' = [pc EXCEPT ![p] = "unload_dispose"]
  /\ UNCHANGED <<now, loadedModels, mapSeq, hpath, loadCalls, spc, slocal>>
  /\ UNCHANGED <<singletonVars, chunkVars, retrieveVars, storeVars>>

\* Lines 84-86: dispose() resolved: the key is deleted and true returned.
UnloadDisposeResolved(p) ==
  /\ pc[p] = "unload_dispose"
  /\ hstate' = [hstate EXCEPT ![local[p].model] = "disposed"]
  /\ loadedModels' = MapDelete(loadedModels, local[p].path)
  /\ ret' = [ret EXCEPT ![p] = BoolRet(TRUE)]
  /\ pc' = [pc EXCEPT ![p] = "done"]
  /\ UNCHANGED <<now, mapSeq, hpath, disposeCalls, loadCalls, local,
                 spc, slocal>>
  /\ UNCHANGED <<singletonVars, chunkVars, retrieveVars, storeVars>>

\* Line 84: dispose() rejected: unloadModel throws before the delete.
UnloadDisposeRejected(p) ==
  /\ pc[p] = "unload_dispose"
  /\ ret' = [ret EXCEPT ![p] = ErrRet("error")]
  /\ pc' = [pc EXCEPT ![p] = "done"]
  /\ UNCHANGED <<now, loadedModels, mapSeq, hstate, hpath, disposeCalls, loadCalls,
                 local, spc, slocal>>
  /\ UNCHANGED <<singletonVars, chunkVars, retrieveVars, storeVars>>

(***************************************************************************)
(* unloadUnusedModels(maxAgeMs), started by the interval timer             *)
(***************************************************************************)
\* Line 60, over the entries the iterator has still to visit.
IsStale(map, path, sweepNow, maxAgeMs) ==
  /\ Has(map, path)
  /\ sweepNow - map[path].lastUsed > maxAgeMs

StaleAhead(map, sweepNow, cursor, maxAgeMs) ==
  {path \in Paths : IsStale(map, path, sweepNow, maxAgeMs) /\ map[path].seq > cursor}

\* The next entry, in iteration order, that the loop of lines 59-64 disposes.
NextStale(map, sweepNow, cursor, maxAgeMs) ==
  CHOOSE path \in StaleAhead(map, sweepNow, cursor, maxAgeMs) :
    \A q \in StaleAhead(map, sweepNow, cursor, maxAgeMs) : map[path].seq <= map[q].seq

\* Lines 59-64 from the iterator position `cursor` over `map`, up to the next
\* await: entries that are not stale are skipped; at the first stale one dispose()
\* is invoked and the pass suspends; with none left the pass completes.
SweepScan(s, map, hs, sweepNow, cursor) ==
  IF StaleAhead(map, sweepNow, cursor, DefaultMaxAgeMs) = {}
    THEN /\ spc' = [spc EXCEPT ![s] = "done"]
         /\ slocal' = [slocal EXCEPT ![s] = NoSLocal]
         /\ hstate' = hs
         /\ UNCHANGED disposeCalls
    ELSE LET path == NextStale(map, sweepNow, cursor, DefaultMaxAgeMs)
             h == map[path].model IN
         /\ spc' = [spc EXCEPT ![s] = "dispose"]
         /\ slocal' = [slocal EXCEPT ![s] =
                         [now |-> sweepNow, cursor |-> map[path].seq,
                          path |-> path, model |-> h]]
         /\ disposeCalls' = DisposeCounted(disposeCalls, h)
         /\ hstate' = DisposeInvoked(hs, h)

\* A pass that waits until no request is suspended in an awaited call.
SweepStartAfterRequests(s) ==
  /\ \A p \in Procs : pc[p] \in {"idle", "done"}
  /\ spc[s] # "dispose"
  /\ SweepScan(s, loadedModels, hstate, now, 0)
  /\ UNCHANGED <<now, loadedModels, mapSeq, hpath, loadCalls, pc, local, ret>>
  /\ UNCHANGED <<singletonVars, chunkVars, retrieveVars, storeVars>>

\* Lines 57-61: the timer fires; the pass reads the clock and scans.
SweepStart(s) ==
  /\ spc[s] # "dispose"
  /\ SweepScan(s, loadedModels, hstate, now, 0)
  /\ UNCHANGED <<now, loadedModels, mapSeq, hpath, loadCalls, pc, local, ret>>
  /\ UNCHANGED <<singletonVars, chunkVars, retrieveVars, storeVars>>

\* Lines 61-64: dispose() resolved: the key is deleted and the loop goes on.
SweepDisposeResolved(s) ==
  LET map == MapDelete(loadedModels, slocal[s].path)
      hs == [hstate EXCEPT ![slocal[s].model] = "disposed"] IN
  /\ spc[s] = "dispose"
  /\ loadedModels' = map
  /\ SweepScan(s, map, hs, slocal[s].now, slocal[s].cursor)
  /\ UNCHANGED <<now, mapSeq, hpath, loadCalls, pc, local, ret>>
  /\ UNCHANGED <<singletonVars, chunkVars, retrieveVars, storeVars>>

\* Line 61 inside a try/catch that goes on with the loop: the entry is kept and
\* the pass scans on from the iterator position.
SweepDisposeRejectedGoesOn(s) ==
  /\ spc[s] = "dispose"
  /\ SweepScan(s, loadedModels, hstate, slocal[s].now, slocal[s].cursor)
  /\ UNCHANGED <<now, loadedModels, mapSeq, hpath, loadCalls, pc, local, ret>>
  /\ UNCHANGED <<singletonVars, chunkVars, retrieveVars, storeVars>>

\* Line 61: dispose() rejected: the pass throws (the timer callback logs it).
SweepDisposeRejected(s) ==
  /\ spc[s] = "dispose"
  /\ spc' = [spc EXCEPT ![s] = "failed"]
  /\ slocal' = [slocal EXCEPT ![s] = NoSLocal]
  /\ UNCHANGED <<now, loadedModels, mapSeq, hstate, hpath, disposeCalls, loadCalls,
                 pc, local, ret>>
  /\ UNCHANGED <<singletonVars, chunkVars, retrieveVars, storeVars>>

\* Names a caller may pass to unloadModel.
UnloadNames == ModelNames

NextCache ==
  \/ Tick
  \/ \E p \in Procs, n \in ModelNames, t \in ModelType : LoadModelHit(p, n, t)
  \/ \E p \in Procs, n \in ModelNames, t \in ModelType : LoadModelMiss(p, n, t)
  \/ \E p \in Procs : LoadModelResolved(p)
  \/ \E p \in Procs, code \in {"ENOENT", "error"} : LoadModelRejected(p, code)
  \/ \E p \in Procs : CreateContextResolved(p)
  \/ \E p \in Procs : CreateContextRejected(p)
  \/ \E p \in Procs, n \in UnloadNames : UnloadModelAbsent(p, n)
  \/ \E p \in Procs, n \in UnloadNames : UnloadModelFound(p, n)
  \/ \E p \in Procs : UnloadDisposeResolved(p)
  \/ \E p \in Procs : UnloadDisposeRejected(p)
  \/ \E s \in Sweeps : SweepStart(s)
  \/ \E s \in Sweeps : SweepDisposeResolved(s)
  \/ \E s \in Sweeps : SweepDisposeRejected(s)
  \/ \E p \in Procs : Return(p)

Spec == Init /\ [][NextCache]_vars

\* The timer of lines 113-115 fires whatever the requests do, and a dispose the
\* pass awaits is not rejected for ever.
SpecTimerFair ==
  /\ Init
  /\ [][NextCache]_vars
  /\ WF_vars(\E s \in Sweeps : SweepStart(s))
  /\ SF_vars(\E s \in Sweeps : SweepDisposeResolved(s))

(***************************************************************************)
(* embeddings.ts: getEmbedding(text, model) and initEmbeddingModel(model), *)
(* called with model = EMBEDDING_MODEL by db-rag.ts.                       *)
(***************************************************************************)
\* Lines 34-38 and 12-15: the model is in the Map: getEmbeddingFor is invoked.
GetEmbeddingCached(t) ==
  /\ tpc[t] = "idle"
  /\ modelContexts # 0
  /\ tpc' = [tpc EXCEPT ![t] = "emb_getEmbeddingFor"]
  /\ UNCHANGED <<modelContexts, embLoadCalls, rerankerModel, rerankerContext,
                 rerankLoadCalls, tmodel>>
  /\ UNCHANGED <<cacheVars, chunkVars, retrieveVars, storeVars>>

\* Lines 34-35 and 13-15: the model is not in the Map: initEmbeddingModel finds it
\* absent too and suspends on getLlama().
GetEmbeddingInit(t) ==
  /\ tpc[t] = "idle"
  /\ modelContexts = 0
  /\ tpc' = [tpc EXCEPT ![t] = "emb_getLlama"]
  /\ UNCHANGED <<modelContexts, embLoadCalls, rerankerModel, rerankerContext,
                 rerankLoadCalls, tmodel>>
  /\ UNCHANGED <<cacheVars, chunkVars, retrieveVars, storeVars>>

\* Lines 15-24: getLlama() resolved: llama.loadModel is invoked.
EmbGetLlamaResolved(t) ==
  /\ tpc[t] = "emb_getLlama"
  /\ embLoadCalls' = embLoadCalls + 1
  /\ tpc' = [tpc EXCEPT ![t] = "emb_loadModel"]
  /\ UNCHANGED <<modelContexts, rerankerModel, rerankerContext, rerankLoadCalls, tmodel>>
  /\ UNCHANGED <<cacheVars, chunkVars, retrieveVars, storeVars>>

\* Lines 22-25: llama.loadModel resolved: createEmbeddingContext is invoked.  The
\* model instance is numbered by the load that produced it.
EmbLoadModelResolved(t) ==
  /\ tpc[t] = "emb_loadModel"
  /\ tmodel' = [tmodel EXCEPT ![t] = 1 + Cardinality({u \in Tasks : tmodel[u] # 0})]
  /\ tpc' = [tpc EXCEPT ![t] = "emb_createContext"]
  /\ UNCHANGED <<modelContexts, embLoadCalls, rerankerModel, rerankerContext,
                 rerankLoadCalls>>
  /\ UNCHANGED <<cacheVars, chunkVars, retrieveVars, storeVars>>

\* Lines 22-25: llama.loadModel or createEmbeddingContext rejected: the call throws.
EmbInitRejected(t) ==
  /\ tpc[t] \in {"emb_loadModel", "emb_createContext"}
  /\ tpc' = [tpc EXCEPT ![t] = "failed"]
  /\ UNCHANGED <<modelContexts, embLoadCalls, rerankerModel, rerankerContext,
                 rerankLoadCalls, tmodel>>
  /\ UNCHANGED <<cacheVars, chunkVars, retrieveVars, storeVars>>

\* Lines 25-27 and 38-43: createEmbeddingContext resolved: the entry is set, and
\* getEmbedding goes on to invoke getEmbeddingFor on the context now in the Map.
EmbCreateContextResolved(t) ==
  /\ tpc[t] = "emb_createContext"
  /\ modelContexts' = tmodel[t]
  /\ tpc' = [tpc EXCEPT ![t] = "emb_getEmbeddingFor"]
  /\ UNCHANGED <<embLoadCalls, rerankerModel, rerankerContext, rerankLoadCalls, tmodel>>
  /\ UNCHANGED <<cacheVars, chunkVars, retrieveVars, storeVars>>

\* Lines 43-44: getEmbeddingFor resolved: the vector is returned.
GetEmbeddingForResolved(t) ==
  /\ tpc[t] = "emb_getEmbeddingFor"
  /\ tpc' = [tpc EXCEPT ![t] = "done"]
  /\ UNCHANGED <<modelContexts, embLoadCalls, rerankerModel, rerankerContext,
                 rerankLoadCalls, tmodel>>
  /\ UNCHANGED <<cacheVars, chunkVars, retrieveVars, storeVars>>

(***************************************************************************)
(* reranking.ts: rerankChunks(query, chunks, modelName) and                *)
(* initRerankerModel().                                                    *)
(***************************************************************************)
\* Lines 125-133: the context is set: rankAndSort is invoked.
RerankChunksCached(t) ==
  /\ tpc[t] = "idle"
  /\ rerankerContext # 0
  /\ tpc' = [tpc EXCEPT ![t] = "rr_rankAndSort"]
  /\ UNCHANGED <<modelContexts, embLoadCalls, rerankerModel, rerankerContext,
                 rerankLoadCalls, tmodel>>
  /\ UNCHANGED <<cacheVars, chunkVars, retrieveVars, storeVars>>

\* Lines 125-131 and 101: the context is null; initRerankerModel returns at once
\* when rerankerModel is set (rerankChunks then throws), else suspends on getLlama().
RerankChunksInit(t) ==
  /\ tpc[t] = "idle"
  /\ rerankerContext = 0
  /\ tpc' = [tpc EXCEPT ![t] = IF rerankerModel # 0 THEN "failed" ELSE "rr_getLlama"]
  /\ UNCHANGED <<modelContexts, embLoadCalls, rerankerModel, rerankerContext,
                 rerankLoadCalls, tmodel>>
  /\ UNCHANGED <<cacheVars, chunkVars, retrieveVars, storeVars>>

\* Lines 103-111: getLlama() resolved: llama.loadModel is invoked.
RrGetLlamaResolved(t) ==
  /\ tpc[t] = "rr_getLlama"
  /\ rerankLoadCalls' = rerankLoadCalls + 1
  /\ tpc' = [tpc EXCEPT ![t] = "rr_loadModel"]
  /\ UNCHANGED <<modelContexts, embLoadCalls, rerankerModel, rerankerContext, tmodel>>
  /\ UNCHANGED <<cacheVars, chunkVars, retrieveVars, storeVars>>

\* Lines 104-112: llama.loadModel resolved: rerankerModel is assigned and
\* createRankingContext invoked.
RrLoadModelResolved(t) ==
  LET model == 1 + Cardinality({u \in Tasks : tmodel[u] # 0}) IN
  /\ tpc[t] = "rr_loadModel"
  /\ tmodel' = [tmodel EXCEPT ![t] = model]
  /\ rerankerModel' = model
  /\ tpc' = [tpc EXCEPT ![t] = "rr_createContext"]
  /\ UNCHANGED <<modelContexts, embLoadCalls, rerankerContext, rerankLoadCalls>>
  /\ UNCHANGED <<cacheVars, chunkVars, retrieveVars, storeVars>>

\* Lines 104-112: llama.loadModel or createRankingContext rejected: the call throws.
RrInitRejected(t) ==
  /\ tpc[t] \in {"rr_loadModel", "rr_createContext"}
  /\ tpc' = [tpc EXCEPT ![t] = "failed"]
  /\ UNCHANGED <<modelContexts, embLoadCalls, rerankerModel, rerankerContext,
                 rerankLoadCalls, tmodel>>
  /\ UNCHANGED <<cacheVars, chunkVars, retrieveVars, storeVars>>

\* Lines 112 and 129-133: createRankingContext resolved: rerankerContext is
\* assigned and rerankChunks goes on to invoke rankAndSort.
RrCreateContextResolved(t) ==
  /\ tpc[t] = "rr_createContext"
  /\ rerankerContext' = rerankerModel
  /\ tpc' = [tpc EXCEPT ![t] = "rr_rankAndSort"]
  /\ UNCHANGED <<modelContexts, embLoadCalls, rerankerModel, rerankLoadCalls, tmodel>>
  /\ UNCHANGED <<cacheVars, chunkVars, retrieveVars, storeVars>>

\* Lines 133-138: rankAndSort resolved: the ranked chunks are returned.
RankAndSortResolved(t) ==
  /\ tpc[t] = "rr_rankAndSort"
  /\ tpc' = [tpc EXCEPT ![t] = "done"]
  /\ UNCHANGED <<modelContexts, embLoadCalls, rerankerModel, rerankerContext,
                 rerankLoadCalls, tmodel>>
  /\ UNCHANGED <<cacheVars, chunkVars, retrieveVars, storeVars>>

NextSingletons ==
  \/ \E t \in Tasks : GetEmbeddingCached(t)
  \/ \E t \in Tasks : GetEmbeddingInit(t)
  \/ \E t \in Tasks : EmbGetLlamaResolved(t)
  \/ \E t \in Tasks : EmbLoadModelResolved(t)
  \/ \E t \in Tasks : EmbInitRejected(t)
  \/ \E t \in Tasks : EmbCreateContextResolved(t)
  \/ \E t \in Tasks : GetEmbeddingForResolved(t)
  \/ \E t \in Tasks : RerankChunksCached(t)
  \/ \E t \in Tasks : RerankChunksInit(t)
  \/ \E t \in Tasks : RrGetLlamaResolved(t)
  \/ \E t \in Tasks : RrLoadModelResolved(t)
  \/ \E t \in Tasks : RrInitRejected(t)
  \/ \E t \in Tasks : RrCreateContextResolved(t)
  \/ \E t \in Tasks : RankAndSortResolved(t)

SpecSingletons == Init /\ [][NextSingletons]_vars

(***************************************************************************)
(* rag.ts: handleDocumentChunking and splitIntoChunks.  Strings are        *)
(* sequences of characters.                                                *)
(***************************************************************************)
MaxTextLen == 5
MaxChunkSize == 4
MaxOverlap == 3
MaxChunks == 4

Chars == {"a", " "}
Texts == UNION {[1..n -> Chars] : n \in 0..MaxTextLen}

Max(a, b) == IF a > b THEN a ELSE b

\* /\s/
IsSpace(c) == c = " "

\* The index of the first character at or after k that is not whitespace
\* (Len(str) + 1 when there is none).
RECURSIVE SkipSpaces(_, _)
SkipSpaces(str, k) ==
  IF k > Len(str) \/ ~IsSpace(str[k]) THEN k ELSE SkipSpaces(str, k + 1)

\* String.prototype.split(/\s+/): the pieces between maximal runs of whitespace;
\* a run at either end of the string leaves an empty piece there.
RECURSIVE SplitFrom(_, _, _, _)
SplitFrom(str, k, piece, acc) ==
  IF k > Len(str) THEN Append(acc, piece)
  ELSE IF IsSpace(str[k]) THEN SplitFrom(str, SkipSpaces(str, k), <<>>, Append(acc, piece))
  ELSE SplitFrom(str, k + 1, Append(piece, str[k]), acc)

SplitWhitespace(str) == SplitFrom(str, 1, <<>>, <<>>)

\* Array.prototype.slice(start, end): a negative index counts from the end, and
\* both are clamped to the array.
SliceIndex(len, k) == IF k < 0 THEN Max(len + k, 0) ELSE Min(k, len)

Slice(arr, start, end) ==
  SubSeq(arr, SliceIndex(Len(arr), start) + 1, SliceIndex(Len(arr), end))

\* Array.prototype.join(" ")
RECURSIVE Join(_)
Join(arr) ==
  IF Len(arr) = 0 THEN <<>>
  ELSE IF Len(arr) = 1 THEN arr[1]
  ELSE arr[1] \o <<" ">> \o Join(Tail(arr))

\* A request arrives: any text, chunkSize and overlap of the JSON body.
InitChunker ==
  /\ text \in Texts
  /\ chunkSize \in 1..MaxChunkSize
  /\ overlap \in 0..MaxOverlap
  /\ words = <<>>
  /\ i = 0
  /\ chunks = <<>>
  /\ cpc = "received"
  /\ generateContexts \in BOOLEAN
  /\ contexts = <<>>

\* handleDocumentChunking, lines 226-238: a request without text is answered 400.
RejectMissingText ==
  /\ cpc = "received"
  /\ text = <<>>
  /\ cpc' = "rejected"
  /\ UNCHANGED <<text, chunkSize, overlap, words, i, chunks>>
  /\ UNCHANGED <<generateContexts, contexts>>
  /\ UNCHANGED <<cacheVars, singletonVars, retrieveVars, storeVars>>

\* Lines 256-262 and 65-68: splitIntoChunks is entered: the text is split and the
\* loop variable initialised.
SplitStart ==
  /\ cpc = "received"
  /\ text # <<>>
  /\ words' = SplitWhitespace(text)
  /\ i' = 0
  /\ chunks' = <<>>
  /\ cpc' = "split_loop"
  /\ UNCHANGED <<text, chunkSize, overlap>>
  /\ UNCHANGED <<generateContexts, contexts>>
  /\ UNCHANGED <<cacheVars, singletonVars, retrieveVars, storeVars>>

\* Lines 69-76 with end_idx written as `i + chunkSize`.
ChunkAtEndUnclamped(ws, k, size) ==
  LET chunkWords == Slice(ws, k, k + size) IN
  [content |-> Join(chunkWords),
   metadata |-> [start_idx |-> k, end_idx |-> k + size]]

\* The chunk pushed by lines 69-76 at loop index k.
ChunkAt(ws, k, size) ==
  LET chunkWords == Slice(ws, k, k + size) IN
  [content |-> Join(chunkWords),
   metadata |-> [start_idx |-> k, end_idx |-> k + Len(chunkWords)]]

\* Line 68 written as `i += chunkSize + overlap`.
SplitIterationStridePlusOverlap ==
  /\ cpc = "split_loop"
  /\ i < Len(words)
  /\ Len(chunks) < MaxChunks
  /\ chunks' = Append(chunks, ChunkAt(words, i, chunkSize))
  /\ i' = i + (chunkSize + overlap)
  /\ UNCHANGED <<text, chunkSize, overlap, words, cpc>>
  /\ UNCHANGED <<generateContexts, contexts>>
  /\ UNCHANGED <<cacheVars, singletonVars, retrieveVars, storeVars>>

\* Line 68 written as `i += chunkSize - overlap + 1`.
SplitIterationStrideOffByOne ==
  /\ cpc = "split_loop"
  /\ i < Len(words)
  /\ Len(chunks) < MaxChunks
  /\ chunks' = Append(chunks, ChunkAt(words, i, chunkSize))
  /\ i' = i + (chunkSize - overlap + 1)
  /\ UNCHANGED <<text, chunkSize, overlap, words, cpc>>
  /\ UNCHANGED <<generateContexts, contexts>>
  /\ UNCHANGED <<cacheVars, singletonVars, retrieveVars, storeVars>>

\* Line 68 written as `i += chunkSize - 2 * overlap`.
SplitIterationStrideMinusTwoOverlaps ==
  /\ cpc = "split_loop"
  /\ i < Len(words)
  /\ Len(chunks) < MaxChunks
  /\ chunks' = Append(chunks, ChunkAt(words, i, chunkSize))
  /\ i' = i + (chunkSize - 2 * overlap)
  /\ UNCHANGED <<text, chunkSize, overlap, words, cpc>>
  /\ UNCHANGED <<generateContexts, contexts>>
  /\ UNCHANGED <<cacheVars, singletonVars, retrieveVars, storeVars>>

\* Line 68 written as `i <= words.length`.
SplitIterationInclusiveBound ==
  /\ cpc = "split_loop"
  /\ i <= Len(words)
  /\ Len(chunks) < MaxChunks
  /\ chunks' = Append(chunks, ChunkAt(words, i, chunkSize))
  /\ i' = i + (chunkSize - overlap)
  /\ UNCHANGED <<text, chunkSize, overlap, words, cpc>>
  /\ UNCHANGED <<generateContexts, contexts>>
  /\ UNCHANGED <<cacheVars, singletonVars, retrieveVars, storeVars>>

\* Lines 68-77: one iteration of the loop.
SplitIteration ==
  /\ cpc = "split_loop"
  /\ i < Len(words)
  /\ Len(chunks) < MaxChunks
  /\ chunks' = Append(chunks, ChunkAt(words, i, chunkSize))
  /\ i' = i + (chunkSize - overlap)
  /\ UNCHANGED <<text, chunkSize, overlap, words, cpc>>
  /\ UNCHANGED <<generateContexts, contexts>>
  /\ UNCHANGED <<cacheVars, singletonVars, retrieveVars, storeVars>>

\* Line 68: the loop condition fails: the chunks are returned.
SplitExit ==
  /\ cpc = "split_loop"
  /\ ~(i < Len(words))
  /\ cpc' = "split_done"
  /\ UNCHANGED <<text, chunkSize, overlap, words, i, chunks>>
  /\ UNCHANGED <<generateContexts, contexts>>
  /\ UNCHANGED <<cacheVars, singletonVars, retrieveVars, storeVars>>

\* The strings generateContext resolves to (lines 40 and 54): a trimmed completion,
\* which may be empty.
Contexts == {<<"c">>, <<>>}

\* chunk.context of a chunk the loop of lines 81-83 has not assigned.
NoContext == <<"undefined">>

\* Line 79 with generateContexts false, or the loop of lines 81-83 past the last
\* chunk: line 85 returns the chunks.
ReturnChunks ==
  /\ cpc = "split_done"
  /\ generateContexts => Len(contexts) = Len(chunks)
  /\ cpc' = "returned"
  /\ UNCHANGED <<text, chunkSize, overlap, words, i, chunks, generateContexts, contexts>>
  /\ UNCHANGED <<cacheVars, singletonVars, retrieveVars, storeVars>>

\* Lines 81-82: the loop calls generateContext for the next chunk and awaits it.
GenerateContextCalled ==
  /\ cpc = "split_done"
  /\ generateContexts
  /\ Len(contexts) < Len(chunks)
  /\ cpc' = "generate_context"
  /\ UNCHANGED <<text, chunkSize, overlap, words, i, chunks, generateContexts, contexts>>
  /\ UNCHANGED <<cacheVars, singletonVars, retrieveVars, storeVars>>

\* Line 82: the awaited generateContext resolves and the chunk's context is
\* assigned.
GenerateContextResolved(context) ==
  /\ cpc = "generate_context"
  /\ contexts' = Append(contexts, context)
  /\ cpc' = "split_done"
  /\ UNCHANGED <<text, chunkSize, overlap, words, i, chunks, generateContexts>>
  /\ UNCHANGED <<cacheVars, singletonVars, retrieveVars, storeVars>>

\* Line 82 wrapped in a try/catch that leaves the chunk without a context and
\* goes on with the next chunk.
GenerateContextRejectedSkipsChunk ==
  /\ cpc = "generate_context"
  /\ contexts' = Append(contexts, NoContext)
  /\ cpc' = "split_done"
  /\ UNCHANGED <<text, chunkSize, overlap, words, i, chunks, generateContexts>>
  /\ UNCHANGED <<cacheVars, singletonVars, retrieveVars, storeVars>>

\* Line 82: the awaited generateContext rejects (the completion request, loadModel
\* or model.complete throws): splitIntoChunks rejects, and the catch of
\* handleDocumentChunking (lines 276-289) answers 500.
GenerateContextRejected ==
  /\ cpc = "generate_context"
  /\ cpc' = "failed"
  /\ UNCHANGED <<text, chunkSize, overlap, words, i, chunks, generateContexts, contexts>>
  /\ UNCHANGED <<cacheVars, singletonVars, retrieveVars, storeVars>>

NextChunker ==
  \/ RejectMissingText
  \/ SplitStart
  \/ SplitIteration
  \/ SplitExit
  \/ ReturnChunks
  \/ GenerateContextCalled
  \/ \E context \in Contexts : GenerateContextResolved(context)
  \/ GenerateContextRejected

InitChunking ==
  IdleCache /\ IdleSingletons /\ InitChunker /\ IdleRetrieve /\ IdleStore

SpecChunker == InitChunking /\ [][NextChunker]_vars

(***************************************************************************)
(* Scoring.  A score is a JavaScript number; the model keeps it as an      *)
(* integer count of thousandths, exact for the vectors below.              *)
(***************************************************************************)
ScoreScale == 1000

\* The embedding vectors of the model: integer vectors whose norms are integers,
\* of the model's dimension 2, and one of another dimension.
Vectors == {<<1, 0>>, <<0, 1>>, <<3, 4>>, <<4, 3>>, <<1>>}

\* A chunk without the embedding (undefined in the request body).
NoEmbedding == <<>>

\* scores.context of a chunk without context embedding: undefined.
NoScore == 0 - 10 * ScoreScale

RECURSIVE DotProduct(_, _, _)
DotProduct(a, b, n) ==
  IF n = 0 THEN 0 ELSE DotProduct(a, b, n - 1) + a[n] * b[n]

\* Math.sqrt, on the perfect squares the vectors above give.
Sqrt(n) == CHOOSE r \in 0..n : r * r = n

Threw(message) == [threw |-> TRUE, message |-> message, value |-> 0]
Value(v) == [threw |-> FALSE, message |-> "", value |-> v]

\* cosineSimilarity without the length check of lines 122-124: the loop runs over
\* the shorter vector.
cosineSimilarityTruncating(a, b) ==
  LET n == Min(Len(a), Len(b)) IN
  Value((DotProduct(a, b, n) * ScoreScale)
          \div (Sqrt(DotProduct(a, a, n)) * Sqrt(DotProduct(b, b, n))))

\* Lines 121-137.
cosineSimilarity(a, b) ==
  IF Len(a) # Len(b)
    THEN Threw("Vectors must have the same length")
    ELSE Value((DotProduct(a, b, Len(a)) * ScoreScale)
                 \div (Sqrt(DotProduct(a, a, Len(a))) * Sqrt(DotProduct(b, b, Len(b)))))

\* The weights of line 165 (and of the SQL of db-rag.ts line 152), in tenths.
ContentWeight == 6
ContextWeight == 4

\* combinedScore with the weights exchanged.
CombinedScoreWeightsSwapped(contentScore, contextScore, hasContext) ==
  IF hasContext
    THEN (ContextWeight * contentScore + ContentWeight * contextScore) \div 10
    ELSE contentScore

\* Lines 164-166.
CombinedScore(contentScore, contextScore, hasContext) ==
  IF hasContext
    THEN (ContentWeight * contentScore + ContextWeight * contextScore) \div 10
    ELSE contentScore

\* The callback of findSimilarChunks' map (lines 145-175) on one chunk: the chunk
\* with its scores, or the error thrown.
ScoreChunk(qe, chunk) ==
  IF chunk.content_embedding = NoEmbedding
    THEN Threw("Chunk missing content embedding")
  ELSE
    LET hasContext == chunk.context_embedding # NoEmbedding
        contentScore == cosineSimilarity(qe, chunk.content_embedding)
        contextScore == IF hasContext
                          THEN cosineSimilarity(qe, chunk.context_embedding)
                          ELSE Value(0)
    IN IF contentScore.threw THEN contentScore
       ELSE IF contextScore.threw THEN contextScore
       ELSE Value([content |-> chunk.content,
                   content_embedding |-> chunk.content_embedding,
                   context_embedding |-> chunk.context_embedding,
                   scores |-> [content |-> contentScore.value,
                               context |-> IF hasContext THEN contextScore.value ELSE NoScore,
                               combined |-> CombinedScore(contentScore.value,
                                                          contextScore.value, hasContext),
                               reranked |-> NoScore]])

\* Array.prototype.sort with a comparator (b, a) |-> key(b) - key(a): descending by
\* key, stable.
\* An insertion that puts an element before the elements of equal key.
RECURSIVE InsertDescendingBeforeEqual(_, _)
InsertDescendingBeforeEqual(sorted, x) ==
  IF sorted = <<>> THEN <<x>>
  ELSE IF sorted[Len(sorted)].key > x.key THEN Append(sorted, x)
  ELSE Append(InsertDescendingBeforeEqual(SubSeq(sorted, 1, Len(sorted) - 1), x),
              sorted[Len(sorted)])

RECURSIVE InsertDescending(_, _)
InsertDescending(sorted, x) ==
  IF sorted = <<>> THEN <<x>>
  ELSE IF sorted[Len(sorted)].key >= x.key THEN Append(sorted, x)
  ELSE Append(InsertDescending(SubSeq(sorted, 1, Len(sorted) - 1), x),
              sorted[Len(sorted)])

RECURSIVE SortKeyed(_)
SortKeyed(keyed) ==
  IF keyed = <<>> THEN <<>>
  ELSE InsertDescending(SortKeyed(SubSeq(keyed, 1, Len(keyed) - 1)), keyed[Len(keyed)])

\* arr sorted by the keys its elements have in keys.
SortDescending(arr, keys) ==
  LET sorted == SortKeyed([k \in 1..Len(arr) |-> [key |-> keys[k], item |-> arr[k]]])
  IN [k \in 1..Len(arr) |-> sorted[k].item]

CombinedOf(chunk) == chunk.scores.combined

\* The map of lines 144-176 over all chunks: the first error thrown, if any.
RECURSIVE MapScoreChunk(_, _)
MapScoreChunk(qe, arr) ==
  IF arr = <<>> THEN Value(<<>>)
  ELSE LET first == ScoreChunk(qe, Head(arr)) IN
       IF first.threw THEN first
       ELSE LET rest == MapScoreChunk(qe, Tail(arr)) IN
            IF rest.threw THEN rest ELSE Value(<<first.value>> \o rest.value)

\* findSimilarChunks without the sort of line 177.
findSimilarChunksUnsorted(qe, arr) == MapScoreChunk(qe, arr)

\* Lines 140-178.
findSimilarChunks(qe, arr) ==
  LET scored == MapScoreChunk(qe, arr) IN
  IF scored.threw THEN scored ELSE Value(SortDescending(scored.value, [k \in 1..Len(scored.value) |-> CombinedOf(scored.value[k])]))

(***************************************************************************)
(* The requests.                                                           *)
(***************************************************************************)
MaxCandidates == 3
MaxTopK == 2

Chunk(content, contentEmbedding, contextEmbedding) ==
  [content |-> content, content_embedding |-> contentEmbedding,
   context_embedding |-> contextEmbedding]

\* Chunks a request body can carry: with and without context embedding, with an
\* embedding of another dimension, without content embedding.
CandidatePool ==
  {Chunk("a", <<1, 0>>, NoEmbedding),
   Chunk("b", <<3, 4>>, <<1, 0>>),
   Chunk("c", <<0, 1>>, <<3, 4>>),
   Chunk("d", <<1>>, NoEmbedding),
   Chunk("e", <<1, 0>>, <<1>>),
   Chunk("f", NoEmbedding, NoEmbedding),
   Chunk("g", <<1, 0>>, NoEmbedding)}

Candidates == UNION {[1..n -> CandidatePool] : n \in 0..MaxCandidates}

\* The vectors getEmbeddingFor returns for the query.
QueryVectors == {<<1, 0>>, <<4, 3>>}

\* The threshold of a request body: a number (0, 0.76, 2) or not a number.
Number(v) == [isNumber |-> TRUE, value |-> v]
NotANumber == [isNumber |-> FALSE, value |-> 0]
Thresholds == {Number(0), Number(760), Number(2 * ScoreScale), NotANumber}

\* The scores a ranking context gives a document.
RerankScores == {200, 800}

\* The model names of the requests.
EmbeddingModelName == <<"m">>
RerankerModelName == <<"m">>

\* POST /v1/query: the body handleQueryChunks destructures (lines 296-303); a
\* threshold in the body is not among the fields read.
QueryRequests ==
  [endpoint : {"query"},
   query : {"", "q"},
   chunks : Candidates,
   topK : 1..MaxTopK,
   threshold : Thresholds,
   shouldRerank : BOOLEAN,
   rerankerModel : {<<>>, RerankerModelName}]

Ok(results) == [status |-> 200, error |-> "", results |-> results]
Failed(status, message) == [status |-> status, error |-> message, results |-> <<>>]

\* loadModel(modelName, type) of models.ts run to completion (no other request
\* or sweep runs in this specification): a hit refreshes lastUsed, a miss loads
\* the model and stores its context.
AcquireModel(modelName, type) ==
  LET modelPath == LoadModelPath(modelName, type)
      h == FreshHandle IN
  /\ IF Has(loadedModels, modelPath)
       THEN /\ loadedModels' = [loadedModels EXCEPT ![modelPath].lastUsed = now]
            /\ UNCHANGED <<mapSeq, hstate, hpath, loadCalls>>
       ELSE /\ loadedModels' = MapSet(loadedModels, modelPath, NewContext(h, type, now))
            /\ mapSeq' = mapSeq + 1
            /\ hstate' = [hstate EXCEPT ![h] = "loaded"]
            /\ hpath' = [hpath EXCEPT ![h] = modelPath]
            /\ loadCalls' = loadCalls + 1
  /\ UNCHANGED <<now, disposeCalls, pc, local, ret, spc, slocal>>

\* Lines 305-318: 400 when query, chunks or embeddingModel is missing.
QueryRejectMissing ==
  /\ rpc = "received"
  /\ req.endpoint = "query"
  /\ req.query = ""
  /\ response' = Failed(400, "Missing required parameters: query, chunks, embeddingModel")
  /\ rpc' = "responded"
  /\ UNCHANGED <<req, dataset, queryEmbedding, similarChunks, relevance, rerankInput>>
  /\ UNCHANGED <<cacheVars, singletonVars, chunkVars, storeVars>>

\* Lines 320-328: the embedding model is acquired and getEmbeddingFor(query) is
\* awaited.
QueryAcquireEmbeddingModel ==
  /\ rpc = "received"
  /\ req.endpoint = "query"
  /\ req.query # ""
  /\ AcquireModel(EmbeddingModelName, "embedding")
  /\ rpc' = "embedding_query"
  /\ UNCHANGED <<req, dataset, queryEmbedding, similarChunks, relevance, rerankInput, response>>
  /\ UNCHANGED <<singletonVars, chunkVars, storeVars>>

\* Lines 326-341: the query embedding arrives and findSimilarChunks scores and
\* sorts the chunks of the body; an error it throws is answered 500 (lines 376-389).
QueryEmbeddingResolved(vector) ==
  LET found == findSimilarChunks(vector, req.chunks) IN
  /\ rpc = "embedding_query"
  /\ req.endpoint = "query"
  /\ queryEmbedding' = vector
  /\ IF found.threw
       THEN /\ response' = Failed(500, found.message)
            /\ rpc' = "responded"
            /\ UNCHANGED similarChunks
       ELSE /\ similarChunks' = found.value
            /\ rpc' = "found_similar"
            /\ UNCHANGED response
  /\ UNCHANGED <<req, dataset, relevance, rerankInput>>
  /\ UNCHANGED <<cacheVars, singletonVars, chunkVars, storeVars>>

\* Array.prototype.slice(0, n)
Take(arr, n) == SubSeq(arr, 1, Min(n, Len(arr)))

\* The fields of a chunk the response carries (lines 353-373).
Result(chunk) == [content |-> chunk.content, scores |-> chunk.scores]
Results(arr) == [k \in 1..Len(arr) |-> Result(arr[k])]

\* Lines 344 and 366-375: no reranking: the first topK chunks are returned.
QueryRespondSimilar ==
  /\ rpc = "found_similar"
  /\ req.endpoint = "query"
  /\ ~(req.shouldRerank /\ req.rerankerModel # <<>>)
  /\ response' = Ok(Results(Take(similarChunks, req.topK)))
  /\ rpc' = "responded"
  /\ UNCHANGED <<req, dataset, queryEmbedding, similarChunks, relevance, rerankInput>>
  /\ UNCHANGED <<cacheVars, singletonVars, chunkVars, storeVars>>

\* rerankChunks called while the query embedding is still awaited, before
\* findSimilarChunks has run.
QueryRerankCalledEarly ==
  /\ rpc = "embedding_query"
  /\ req.endpoint = "query"
  /\ req.shouldRerank /\ req.rerankerModel # <<>>
  /\ AcquireModel(req.rerankerModel, "reranker")
  /\ rerankInput' = [k \in 1..Len(similarChunks) |-> similarChunks[k].content]
  /\ rpc' = "ranking"
  /\ UNCHANGED <<req, dataset, queryEmbedding, similarChunks, relevance, response>>
  /\ UNCHANGED <<singletonVars, chunkVars, storeVars>>

\* Lines 344-350 and 187-196: rerankChunks acquires the reranker model and awaits
\* rankAndSort on the contents of the chunks it was given.
QueryRerankCalled ==
  /\ rpc = "found_similar"
  /\ req.endpoint = "query"
  /\ req.shouldRerank /\ req.rerankerModel # <<>>
  /\ AcquireModel(req.rerankerModel, "reranker")
  /\ rerankInput' = [k \in 1..Len(similarChunks) |-> similarChunks[k].content]
  /\ rpc' = "ranking"
  /\ UNCHANGED <<req, dataset, queryEmbedding, similarChunks, relevance, response>>
  /\ UNCHANGED <<singletonVars, chunkVars, storeVars>>

\* LlamaRankingContext.rankAndSort(query, documents): every document with its
\* score, sorted by score from the highest to the lowest.
ScoreOf(result) == result.score

rankAndSort(documents, scoreOfDocument) ==
  LET results == [k \in 1..Len(documents) |->
                    [document |-> documents[k], score |-> scoreOfDocument[documents[k]]]]
  IN SortDescending(results, [k \in 1..Len(results) |-> ScoreOf(results[k])])

RerankedOrCombined(chunk) ==
  IF chunk.scores.reranked # NoScore THEN chunk.scores.reranked ELSE chunk.scores.combined

\* Lines 198-211 of rerankChunks.
RerankedChunks(rankedResults, arr, topK) ==
  LET mapped == [idx \in 1..Len(rankedResults) |->
                   [arr[idx] EXCEPT !.scores.reranked = rankedResults[idx].score]]
  IN Take(SortDescending(mapped, [k \in 1..Len(mapped) |-> RerankedOrCombined(mapped[k])]),
          topK)

\* Lines 192-211 and 352-363: rankAndSort resolved.
QueryRankAndSortResolved(scoreOfDocument) ==
  /\ rpc = "ranking"
  /\ req.endpoint = "query"
  /\ relevance' = scoreOfDocument
  /\ response' = Ok(Results(RerankedChunks(rankAndSort(rerankInput, scoreOfDocument),
                                           similarChunks, req.topK)))
  /\ rpc' = "responded"
  /\ UNCHANGED <<req, dataset, queryEmbedding, similarChunks, rerankInput>>
  /\ UNCHANGED <<cacheVars, singletonVars, chunkVars, storeVars>>

\* The message of the error llama.loadModel rejects with, by its code.
ErrorMessage(code) ==
  IF code = "ENOENT" THEN "ENOENT: no such file or directory" ELSE "Failed to load model"

\* models.ts line 37 under lines 321 and 187: the model is not in the cache and
\* llama.loadModel rejects, with code ENOENT when the file is missing; loadModel
\* stores nothing, and the catch of lines 376-389 answers 500 with the message.
QueryLoadModelRejected(code) ==
  /\ req.endpoint = "query"
  /\ \/ /\ rpc = "received"
        /\ req.query # ""
        /\ ~Has(loadedModels, LoadModelPath(EmbeddingModelName, "embedding"))
     \/ /\ rpc = "found_similar"
        /\ req.shouldRerank /\ req.rerankerModel # <<>>
        /\ ~Has(loadedModels, LoadModelPath(req.rerankerModel, "reranker"))
  /\ loadCalls' = loadCalls + 1
  /\ response' = Failed(500, ErrorMessage(code))
  /\ rpc' = "responded"
  /\ UNCHANGED <<now, loadedModels, mapSeq, hstate, hpath, disposeCalls, pc, local, ret,
                 spc, slocal>>
  /\ UNCHANGED <<req, dataset, queryEmbedding, similarChunks, relevance, rerankInput>>
  /\ UNCHANGED <<singletonVars, chunkVars, storeVars>>

\* An awaited inference call of the handler rejects: the catch of lines 376-389
\* answers 500.
QueryAwaitRejected ==
  /\ rpc \in {"embedding_query", "ranking"}
  /\ req.endpoint = "query"
  /\ response' = Failed(500, "Unknown error occurred")
  /\ rpc' = "responded"
  /\ UNCHANGED <<req, dataset, queryEmbedding, similarChunks, relevance, rerankInput>>
  /\ UNCHANGED <<cacheVars, singletonVars, chunkVars, storeVars>>

Documents(arr) == {arr[k] : k \in 1..Len(arr)}

NextQuery ==
  \/ QueryRejectMissing
  \/ QueryAcquireEmbeddingModel
  \/ \E vector \in QueryVectors : QueryEmbeddingResolved(vector)
  \/ QueryRespondSimilar
  \/ QueryRerankCalled
  \/ \E scoreOfDocument \in [Documents(rerankInput) -> RerankScores] :
       QueryRankAndSortResolved(scoreOfDocument)
  \/ \E code \in {"ENOENT", "error"} : QueryLoadModelRejected(code)
  \/ QueryAwaitRejected

(***************************************************************************)
(* db-rag.ts handleSearchChunks                                            *)
(***************************************************************************)
\* The rows handleStoreDocument inserts (db-rag.ts lines 49-73): both embeddings,
\* of the column's dimension; without generated contexts the context is the
\* content.
RowPool ==
  {Chunk("a", <<1, 0>>, <<1, 0>>),
   Chunk("b", <<3, 4>>, <<1, 0>>),
   Chunk("c", <<0, 1>>, <<3, 4>>)}

Datasets == UNION {[1..n -> RowPool] : n \in 0..MaxCandidates}

\* POST /v1/search: the body handleSearchChunks destructures (lines 118-124),
\* without folder_id.
SearchRequests ==
  [endpoint : {"search"},
   query : {"", "q"},
   top_k : 1..MaxTopK,
   threshold : Thresholds,
   shouldRerank : BOOLEAN]

\* Line 130.
ThresholdInvalid(threshold) ==
  ~threshold.isNumber \/ threshold.value < 0 \/ threshold.value > ScoreScale

\* Lines 126-128.
SearchRejectMissingQuery ==
  /\ rpc = "received"
  /\ req.endpoint = "search"
  /\ req.query = ""
  /\ response' = Failed(400, "Query is required")
  /\ rpc' = "responded"
  /\ UNCHANGED <<req, dataset, queryEmbedding, similarChunks, relevance, rerankInput>>
  /\ UNCHANGED <<cacheVars, singletonVars, chunkVars, storeVars>>

\* Lines 130-135.
SearchRejectThreshold ==
  /\ rpc = "received"
  /\ req.endpoint = "search"
  /\ req.query # ""
  /\ ThresholdInvalid(req.threshold)
  /\ response' = Failed(400, "Threshold must be a number between 0 and 1")
  /\ rpc' = "responded"
  /\ UNCHANGED <<req, dataset, queryEmbedding, similarChunks, relevance, rerankInput>>
  /\ UNCHANGED <<cacheVars, singletonVars, chunkVars, storeVars>>

\* Line 138 and embeddings.ts lines 12-43: getEmbedding initialises the embedding
\* model when modelContexts lacks it (run to completion: no other request runs in
\* this specification) and awaits getEmbeddingFor.
SearchGetEmbedding ==
  /\ rpc = "received"
  /\ req.endpoint = "search"
  /\ req.query # ""
  /\ ~ThresholdInvalid(req.threshold)
  /\ IF modelContexts = 0
       THEN modelContexts' = 1 /\ embLoadCalls' = embLoadCalls + 1
       ELSE UNCHANGED <<modelContexts, embLoadCalls>>
  /\ rpc' = "embedding_query"
  /\ UNCHANGED <<rerankerModel, rerankerContext, rerankLoadCalls, tpc, tmodel>>
  /\ UNCHANGED <<req, dataset, queryEmbedding, similarChunks, relevance, rerankInput, response>>
  /\ UNCHANGED <<cacheVars, chunkVars, storeVars>>

\* Lines 138-175: the query embedding arrives; the select is built and awaited.
SearchEmbeddingResolved(vector) ==
  /\ rpc = "embedding_query"
  /\ req.endpoint = "search"
  /\ queryEmbedding' = vector
  /\ rpc' = "select"
  /\ UNCHANGED <<req, dataset, similarChunks, relevance, rerankInput, response>>
  /\ UNCHANGED <<cacheVars, singletonVars, chunkVars, storeVars>>

\* 1 - cosineDistance(column, queryEmbedding) of lines 141-149: pgvector's cosine
\* distance is 1 minus the cosine similarity.
SqlSimilarity(column, qe) ==
  (DotProduct(column, qe, Len(qe)) * ScoreScale)
    \div (Sqrt(DotProduct(column, column, Len(qe))) * Sqrt(DotProduct(qe, qe, Len(qe))))

\* The columns the select of lines 155-164 computes for a row.
SelectRow(row, qe) ==
  LET contentSimilarity == SqlSimilarity(row.content_embedding, qe)
      contextSimilarity == SqlSimilarity(row.context_embedding, qe) IN
  [content |-> row.content,
   content_score |-> contentSimilarity,
   context_score |-> contextSimilarity,
   combined_score |-> (ContentWeight * contentSimilarity
                        + ContextWeight * contextSimilarity) \div 10]

\* The where clause of lines 166-173 (no folder_id).
Where(row, threshold) == row.combined_score >= threshold.value

\* The results a select ... where ... order by combined desc limit top_k can
\* return (lines 155-175): rows of equal combined score come in any order.
SelectResults(rows, qe, threshold, limit) ==
  LET selected == [k \in 1..Len(rows) |-> SelectRow(rows[k], qe)]
      passing == {k \in 1..Len(rows) : Where(selected[k], threshold)}
      n == Cardinality(passing)
      orders == {o \in [1..n -> passing] :
                   /\ \A k, l \in 1..n : k # l => o[k] # o[l]
                   /\ \A k \in 1..(n - 1) :
                        selected[o[k]].combined_score >= selected[o[k + 1]].combined_score}
  IN {Take([k \in 1..n |-> selected[o[k]]], limit) : o \in orders}

\* Lines 190-202.
SearchResult(row) ==
  [content |-> row.content,
   scores |-> [content |-> row.content_score, context |-> row.context_score,
               combined |-> row.combined_score, reranked |-> NoScore]]

\* reranking.ts rerankChunks, lines 125-131, run to completion: the reranker
\* model is initialised when rerankerContext is null.
InitRerankerSequential ==
  IF rerankerContext = 0
    THEN /\ rerankerModel' = 1
         /\ rerankerContext' = 1
         /\ rerankLoadCalls' = rerankLoadCalls + 1
    ELSE UNCHANGED <<rerankerModel, rerankerContext, rerankLoadCalls>>

\* Lines 155-225: the select resolved with its rows.  With shouldRerank the
\* contents go to rerankChunks, which awaits rankAndSort; otherwise the rows are
\* the response.
SearchSelectResolved(rows) ==
  /\ rpc = "select"
  /\ req.endpoint = "search"
  /\ similarChunks' = [k \in 1..Len(rows) |-> SearchResult(rows[k])]
  /\ IF req.shouldRerank
       THEN /\ InitRerankerSequential
            /\ rerankInput' = [k \in 1..Len(rows) |-> rows[k].content]
            /\ rpc' = "ranking"
            /\ UNCHANGED response
       ELSE /\ response' = Ok([k \in 1..Len(rows) |-> SearchResult(rows[k])])
            /\ rpc' = "responded"
            /\ UNCHANGED <<rerankerModel, rerankerContext, rerankLoadCalls, rerankInput>>
  /\ UNCHANGED <<modelContexts, embLoadCalls, tpc, tmodel>>
  /\ UNCHANGED <<req, dataset, queryEmbedding, relevance>>
  /\ UNCHANGED <<cacheVars, chunkVars, storeVars>>

\* Lines 213-219: results[i].scores.reranked = rerankedResults[i]?.score.
SearchReranked(results, rerankedResults) ==
  [k \in 1..Len(results) |->
     [results[k] EXCEPT !.scores.reranked =
        IF k <= Len(rerankedResults) THEN rerankedResults[k].score ELSE NoScore]]

\* reranking.ts lines 133-138 and db-rag.ts lines 206-225: rankAndSort resolved.
SearchRankAndSortResolved(scoreOfDocument) ==
  /\ rpc = "ranking"
  /\ req.endpoint = "search"
  /\ relevance' = scoreOfDocument
  /\ response' = Ok(SearchReranked(similarChunks, rankAndSort(rerankInput, scoreOfDocument)))
  /\ rpc' = "responded"
  /\ UNCHANGED <<req, dataset, queryEmbedding, similarChunks, rerankInput>>
  /\ UNCHANGED <<cacheVars, singletonVars, chunkVars, storeVars>>

\* An awaited call rejects: the catch of lines 226-235 answers 500.
SearchAwaitRejected ==
  /\ rpc \in {"embedding_query", "select", "ranking"}
  /\ req.endpoint = "search"
  /\ response' = Failed(500, "Unknown error occurred")
  /\ rpc' = "responded"
  /\ UNCHANGED <<req, dataset, queryEmbedding, similarChunks, relevance, rerankInput>>
  /\ UNCHANGED <<cacheVars, singletonVars, chunkVars, storeVars>>

NextSearch ==
  \/ SearchRejectMissingQuery
  \/ SearchRejectThreshold
  \/ SearchGetEmbedding
  \/ \E vector \in QueryVectors : SearchEmbeddingResolved(vector)
  \/ /\ rpc = "select"
     /\ \E rows \in SelectResults(dataset, queryEmbedding, req.threshold, req.top_k) :
          SearchSelectResolved(rows)
  \/ \E scoreOfDocument \in [Documents(rerankInput) -> RerankScores] :
       SearchRankAndSortResolved(scoreOfDocument)
  \/ SearchAwaitRejected

InitSearch ==
  /\ req \in SearchRequests
  /\ rpc = "received"
  /\ dataset \in Datasets
  /\ queryEmbedding = <<>>
  /\ similarChunks = <<>>
  /\ relevance = <<>>
  /\ rerankInput = <<>>
  /\ response = NoResponse

InitQuery ==
  /\ req \in QueryRequests
  /\ rpc = "received"
  /\ dataset = <<>>
  /\ queryEmbedding = <<>>
  /\ similarChunks = <<>>
  /\ relevance = <<>>
  /\ rerankInput = <<>>
  /\ response = NoResponse

InitRetrieve ==
  IdleCache /\ IdleSingletons /\ IdleChunker /\ (InitQuery \/ InitSearch) /\ IdleStore

NextRetrieve == NextQuery \/ NextSearch

SpecRetrieve == InitRetrieve /\ [][NextRetrieve]_vars

(***************************************************************************)
(* db-rag.ts handleStoreDocument.  chunks.map runs the callback of every   *)
(* chunk up to its first await, so all callbacks are in flight together;   *)
(* Promise.all rejects on the first callback that rejects and fulfils when *)
(* all have fulfilled, and it cancels nothing.                             *)
(***************************************************************************)
MaxStoreChunks == 3

StoreRequests == [document : {"", "d"}, generateContexts : BOOLEAN]

StoreChunks == DOMAIN chunkPc

\* Lines 31-33: no document.
StoreRejectMissing ==
  /\ storePc = "received"
  /\ storeReq.document = ""
  /\ storeResponse' = 400
  /\ storePc' = "responded"
  /\ UNCHANGED <<storeReq, chunkPc, insertedChunks>>
  /\ UNCHANGED <<cacheVars, singletonVars, chunkVars, retrieveVars>>

\* Lines 39-52: splitIntoChunks returns n chunks and chunks.map starts the
\* callback of each, which awaits the embedding of its content.
StoreSplitResolved(n) ==
  /\ storePc = "received"
  /\ storeReq.document # ""
  /\ chunkPc' = [c \in 1..n |-> "embed_content"]
  /\ storePc' = "batch"
  /\ UNCHANGED <<storeReq, insertedChunks, storeResponse>>
  /\ UNCHANGED <<cacheVars, singletonVars, chunkVars, retrieveVars>>

\* Lines 39-44 and 104-113: splitIntoChunks rejects.
StoreSplitRejected ==
  /\ storePc = "received"
  /\ storeReq.document # ""
  /\ storeResponse' = 500
  /\ storePc' = "responded"
  /\ UNCHANGED <<storeReq, chunkPc, insertedChunks>>
  /\ UNCHANGED <<cacheVars, singletonVars, chunkVars, retrieveVars>>

\* Lines 49-56: the content embedding of chunk c arrives; the callback calls
\* generateContext when the request asks for contexts, and otherwise embeds
\* the content again as the context.
ContentEmbeddingResolved(c) ==
  /\ c \in StoreChunks
  /\ chunkPc[c] = "embed_content"
  /\ chunkPc' = [chunkPc EXCEPT ![c] = IF storeReq.generateContexts
                                         THEN "generate_context"
                                         ELSE "embed_context"]
  /\ UNCHANGED <<storeReq, storePc, insertedChunks, storeResponse>>
  /\ UNCHANGED <<cacheVars, singletonVars, chunkVars, retrieveVars>>

\* Lines 54-60: generateContext returns for chunk c.
ChunkContextResolved(c) ==
  /\ c \in StoreChunks
  /\ chunkPc[c] = "generate_context"
  /\ chunkPc' = [chunkPc EXCEPT ![c] = "embed_context"]
  /\ UNCHANGED <<storeReq, storePc, insertedChunks, storeResponse>>
  /\ UNCHANGED <<cacheVars, singletonVars, chunkVars, retrieveVars>>

\* Lines 57-63: the context embedding of chunk c arrives.
ContextEmbeddingResolved(c) ==
  /\ c \in StoreChunks
  /\ chunkPc[c] = "embed_context"
  /\ chunkPc' = [chunkPc EXCEPT ![c] = "insert"]
  /\ UNCHANGED <<storeReq, storePc, insertedChunks, storeResponse>>
  /\ UNCHANGED <<cacheVars, singletonVars, chunkVars, retrieveVars>>

\* Lines 63-96: the transaction of chunk c commits its row.
InsertResolved(c) ==
  /\ c \in StoreChunks
  /\ chunkPc[c] = "insert"
  /\ insertedChunks' = insertedChunks \cup {c}
  /\ chunkPc' = [chunkPc EXCEPT ![c] = "done"]
  /\ UNCHANGED <<storeReq, storePc, storeResponse>>
  /\ UNCHANGED <<cacheVars, singletonVars, chunkVars, retrieveVars>>

\* Lines 47 and 104-113: an awaited call of the callback of chunk c rejects.
\* The first rejection rejects Promise.all and the catch answers 500; a later
\* one is dropped.  The callbacks of the other chunks are left as they are.
ChunkRejected(c) ==
  /\ c \in StoreChunks
  /\ chunkPc[c] \in {"embed_content", "generate_context", "embed_context", "insert"}
  /\ chunkPc' = [chunkPc EXCEPT ![c] = "failed"]
  /\ IF storePc = "batch"
       THEN storeResponse' = 500 /\ storePc' = "responded"
       ELSE UNCHANGED <<storeResponse, storePc>>
  /\ UNCHANGED <<storeReq, insertedChunks>>
  /\ UNCHANGED <<cacheVars, singletonVars, chunkVars, retrieveVars>>

\* Lines 47 and 98-103: every callback has fulfilled.
StoreRespondProcessed ==
  /\ storePc = "batch"
  /\ \A c \in StoreChunks : chunkPc[c] = "done"
  /\ storeResponse' = 200
  /\ storePc' = "responded"
  /\ UNCHANGED <<storeReq, chunkPc, insertedChunks>>
  /\ UNCHANGED <<cacheVars, singletonVars, chunkVars, retrieveVars>>

NextStore ==
  \/ StoreRejectMissing
  \/ \E n \in 1..MaxStoreChunks : StoreSplitResolved(n)
  \/ StoreSplitRejected
  \/ \E c \in 1..MaxStoreChunks : ContentEmbeddingResolved(c)
  \/ \E c \in 1..MaxStoreChunks : ChunkContextResolved(c)
  \/ \E c \in 1..MaxStoreChunks : ContextEmbeddingResolved(c)
  \/ \E c \in 1..MaxStoreChunks : InsertResolved(c)
  \/ \E c \in 1..MaxStoreChunks : ChunkRejected(c)
  \/ StoreRespondProcessed

InitStoring ==
  /\ IdleCache /\ IdleSingletons /\ IdleChunker /\ IdleRetrieve
  /\ storeReq \in StoreRequests
  /\ storePc = "received"
  /\ chunkPc = <<>>
  /\ insertedChunks = {}
  /\ storeResponse = 0

SpecStore == InitStoring /\ [][NextStore]_vars

(***************************************************************************)
(* Properties of the resource cache                                        *)
(***************************************************************************)
CachedPaths(map) == {path \in Paths : Has(map, path)}
CachedHandles(map) == {map[path].model : path \in CachedPaths(map)}

\* The kind a cache key was acquired with: its directory.
KindOfPath(path) == CHOOSE t \in ModelType : MODEL_DIRS[t] = path[1]

\* Request p has invoked llama.loadModel for `path` and has not stored the result yet.
Loading(p, path) ==
  /\ pc[p] \in {"load_model", "create_context"}
  /\ local[p].path = path

\* In this step request p's loadModel call returns or throws.
LoadModelEnds(p) ==
  /\ pc[p] \in {"idle", "load_model", "create_context"}
  /\ pc'[p] = "done"
  /\ local'[p].fn = "loadModel"

\* In this step pass s of unloadUnusedModels resumes after its awaited dispose().
SweepResumes(s) ==
  /\ spc[s] = "dispose"
  /\ spc'[s] # "dispose" \/ slocal'[s] # slocal[s]

\* C1: acquire calls issued concurrently for the same key, while that key is not
\* cached, invoke the runtime's load once: no two loads of one key are ever
\* outstanding together.
C1_OneLoadPerKey ==
  \A path \in Paths : Cardinality({p \in Procs : Loading(p, path)}) <= 1

\* C2: at most one loaded, not yet disposed resource exists per key.
C2_OneResourcePerKey ==
  \A path \in Paths :
    Cardinality({h \in Handles : hstate[h] \in {"loaded", "disposing"}
                                   /\ hpath[h] = path}) <= 1

\* C3: the models of the persisted pipeline are never instantiated in duplicate:
\* concurrent getEmbedding calls, and concurrent rerankChunks calls, never have two
\* loads of the model outstanding together.
C3_SingletonLoadedOnce ==
  /\ Cardinality({t \in Tasks : tpc[t] \in {"emb_loadModel", "emb_createContext"}}) <= 1
  /\ Cardinality({t \in Tasks : tpc[t] \in {"rr_loadModel", "rr_createContext"}}) <= 1

\* C4: an acquire never returns a handle that a sweep pass is disposing.
C4_AcquireNeverReturnsEvicted ==
  [][\A p \in Procs :
       (LoadModelEnds(p) /\ ret'[p].kind = "ctx")
         => /\ hstate'[ret'[p].model] = "loaded"
               \/ \A s \in Sweeps : ~(spc'[s] = "dispose" /\ slocal'[s].model = ret'[p].model)
    ]_vars

\* C5: when a sweep pass completes, no entry older than maxIdle at the pass's clock
\* reading is left in the cache, and the pass has removed no entry that was
\* accessed within maxIdle.
C5_SweepEvictsExactlyIdle ==
  [][\A s \in Sweeps :
       /\ (SweepResumes(s) /\ spc'[s] = "done")
            => \A path \in Paths :
                 ~IsStale(loadedModels', path, slocal[s].now, DefaultMaxAgeMs)
       /\ (SweepResumes(s) /\ spc'[s] # "failed" /\ Has(loadedModels, slocal[s].path))
            => IsStale(loadedModels, slocal[s].path, slocal[s].now, DefaultMaxAgeMs)
    ]_vars

\* In this step request p calls unloadModel.
UnloadModelCalled(p) ==
  /\ pc[p] = "idle"
  /\ local'[p].fn = "unloadModel"

\* The keys under which the cache holds a model called `modelName`.
LoadedAs(modelName) ==
  {path \in {PathJoin(MODEL_DIRS[t], modelName \o <<GGUF>>) : t \in ModelType} :
     Has(loadedModels, path)}

C7_FailedAcquireLeavesNoEntry ==
  [][\A p \in Procs :
       (LoadModelEnds(p) /\ ret'[p].kind = "err")
         => /\ ~Has(loadedModels', local[p].path)
            /\ loadCalls' = loadCalls
    ]_vars

\* C8: dispose is never invoked twice on the same handle.
C8_DisposeAtMostOnce ==
  \A h \in Handles : disposeCalls[h] <= 1

\* C9: a cache entry has an embedding capability exactly when it was acquired with
\* kind "embedding" and a ranking capability exactly when it was acquired with kind
\* "reranker"; an entry of kind "chat" has neither.
C9_CapabilitiesMatchKind ==
  \A path \in Paths :
    Has(loadedModels, path)
      => /\ loadedModels[path].embeddingContext <=> (KindOfPath(path) = "embedding")
         /\ loadedModels[path].rankingContext <=> (KindOfPath(path) = "reranker")

\* Two entries of different kinds are cached together, one of them a chat model.
C9_Witness ==
  \E a \in Paths, b \in Paths :
    /\ Has(loadedModels, a) /\ KindOfPath(a) = "chat"
    /\ Has(loadedModels, b) /\ KindOfPath(b) # "chat"

\* C10: a chunking request with overlap >= chunkSize fails: it produces no chunk
\* and does not return a chunk list.
C10_OverlapNotBelowChunkSizeRejected ==
  overlap >= chunkSize => (chunks = <<>> /\ cpc # "split_done")


(***************************************************************************)
(* Chunk boundaries.  The tokens are the elements of words, at positions   *)
(* 0 .. Len(words) - 1; a chunk holds the positions from its start_idx up  *)
(* to, not including, its end_idx.                                         *)
(***************************************************************************)
Positions(chunk) ==
  {pos \in 0..(Len(words) - 1) :
     chunk.metadata.start_idx <= pos /\ pos < chunk.metadata.end_idx}

ChunkLength(chunk) == chunk.metadata.end_idx - chunk.metadata.start_idx

ChunksHolding(pos) == {k \in 1..Len(chunks) : pos \in Positions(chunks[k])}

Returned == cpc = "returned"

\* C11: for 0 <= overlap < chunkSize, the chunks splitIntoChunks returns hold,
\* together, exactly the token positions 0 .. N-1: every token is in some chunk.
C11_ChunksCoverAllTokens ==
  (Returned /\ 0 <= overlap /\ overlap < chunkSize)
    => UNION {Positions(chunks[k]) : k \in 1..Len(chunks)} = 0..(Len(words) - 1)

\* A split with a positive overlap has returned several chunks, the last one
\* shorter than chunkSize.
C11_Witness ==
  /\ Returned
  /\ overlap > 0
  /\ Len(chunks) >= 3
  /\ ChunkLength(chunks[Len(chunks)]) < chunkSize

\* C12 as stated: two adjacent returned chunks, the later of which is not the
\* last chunk, share exactly overlap token positions.
C12_AdjacentShareOverlapUnlessLast ==
  Returned
    => \A k \in 1..(Len(chunks) - 1) :
         k + 1 < Len(chunks)
           => Cardinality(Positions(chunks[k]) \cap Positions(chunks[k + 1])) = overlap

\* C12, amended: for 0 <= overlap < chunkSize, two adjacent returned chunks share
\* exactly overlap token positions whenever the earlier one holds chunkSize
\* tokens; a pair whose earlier chunk was cut short by the end of the input may
\* share fewer.
C12_AdjacentShareOverlapWhenFull ==
  (Returned /\ 0 <= overlap /\ overlap < chunkSize)
    => \A k \in 1..(Len(chunks) - 1) :
         ChunkLength(chunks[k]) = chunkSize
           => Cardinality(Positions(chunks[k]) \cap Positions(chunks[k + 1])) = overlap

\* Two full chunks are followed by a further chunk, with a positive overlap.
C12_Witness ==
  /\ Returned
  /\ overlap > 0
  /\ Len(chunks) >= 3
  /\ ChunkLength(chunks[1]) = chunkSize
  /\ ChunkLength(chunks[2]) = chunkSize

\* C13 as stated: for 0 <= overlap < chunkSize, every token position is in at most
\* two returned chunks, and those two are adjacent.
C13_AtMostTwoAdjacentChunks ==
  (Returned /\ 0 <= overlap /\ overlap < chunkSize)
    => \A pos \in 0..(Len(words) - 1) :
         /\ Cardinality(ChunksHolding(pos)) <= 2
         /\ \A k \in ChunksHolding(pos), l \in ChunksHolding(pos) :
              k - l \in {-1, 0, 1}

\* C13, amended: for 0 <= overlap and 2 * overlap <= chunkSize, every token
\* position is in one returned chunk or in two adjacent ones.
C13_AtMostTwoAdjacentChunksHalfOverlap ==
  (Returned /\ 0 <= overlap /\ 2 * overlap <= chunkSize)
    => \A pos \in 0..(Len(words) - 1) :
         /\ Cardinality(ChunksHolding(pos)) \in {1, 2}
         /\ \A k \in ChunksHolding(pos), l \in ChunksHolding(pos) :
              k - l \in {-1, 0, 1}

\* With an overlap of at most half the chunk size, one token is in two chunks and
\* another in one.
C13_Witness ==
  /\ Returned
  /\ overlap > 0
  /\ 2 * overlap <= chunkSize
  /\ \E pos \in 0..(Len(words) - 1) : Cardinality(ChunksHolding(pos)) = 2
  /\ \E pos \in 0..(Len(words) - 1) : Cardinality(ChunksHolding(pos)) = 1

\* C14: every returned chunk holds at least one non-empty token and at most
\* chunkSize tokens, whatever the text.
C14_NoEmptyChunk ==
  Returned
    => \A k \in 1..Len(chunks) :
         /\ \E pos \in Positions(chunks[k]) : words[pos + 1] # <<>>
         /\ ChunkLength(chunks[k]) <= chunkSize

\* C15: with generateContexts set, splitIntoChunks returns only when every chunk
\* has been given the context its generateContext call resolved to; once a call
\* has been rejected the operation has failed and returns no chunk list.
C15_ContextFailureFailsChunking ==
  /\ (Returned /\ generateContexts)
       => /\ Len(contexts) = Len(chunks)
          /\ \A k \in 1..Len(contexts) : contexts[k] \in Contexts
  /\ (cpc = "failed") => Len(contexts) < Len(chunks)

\* Context generation fails for the third chunk after it succeeded for two: the
\* request has failed.
C15_Witness ==
  /\ cpc = "failed"
  /\ generateContexts
  /\ Len(contexts) = 2
  /\ Len(chunks) >= 3

(***************************************************************************)
(* Retrieval.                                                              *)
(***************************************************************************)
Answered(status) == rpc = "responded" /\ response.status = status

RerankRan == relevance # <<>>

\* The candidates of the request: the chunks of its body, or the rows of the table.
CandidatesOf(request) == IF request.endpoint = "query" THEN request.chunks ELSE dataset

RequestedTopK(request) == IF request.endpoint = "query" THEN request.topK ELSE request.top_k

EmbeddingsOf(chunk) == {chunk.content_embedding, chunk.context_embedding} \ {NoEmbedding}

\* C17: cosineSimilarity throws on vectors of different lengths, and a query whose
\* chunks hold an embedding of another length than the query embedding is
\* answered with an error, no chunk of it scored.
C17_DimensionMismatchFails ==
  /\ \A a \in QueryVectors, b \in Vectors :
       Len(a) # Len(b) => cosineSimilarity(a, b) = Threw("Vectors must have the same length")
  /\ (/\ req.endpoint = "query"
      /\ queryEmbedding # <<>>
      /\ \E k \in 1..Len(req.chunks) :
           \E e \in EmbeddingsOf(req.chunks[k]) : Len(e) # Len(queryEmbedding))
       => /\ Answered(500)
          /\ similarChunks = <<>>
          /\ response.results = <<>>

\* A query whose second chunk has an embedding of another length, after a first
\* chunk that could be scored, has been answered with the length error.
C17_Witness ==
  /\ req.endpoint = "query"
  /\ Len(req.chunks) >= 2
  /\ req.chunks[1].content = "b"
  /\ req.chunks[2].content = "d"
  /\ Answered(500)
  /\ response.error = "Vectors must have the same length"

\* The candidates of a request whose combined score is at least the threshold.
Passing(request) ==
  {k \in 1..Len(CandidatesOf(request)) :
     LET scored == ScoreChunk(queryEmbedding, CandidatesOf(request)[k]) IN
     scored.value.scores.combined >= request.threshold.value}

\* C18: a retrieve answered without reranking, for a threshold in [0, 1], returns
\* only candidates whose combined score is at least the threshold, as many of
\* them as topK allows, by descending combined score.
C18_ThresholdFilterAndTopK ==
  (Answered(200) /\ ~RerankRan /\ ~ThresholdInvalid(req.threshold))
    => /\ \A k \in 1..Len(response.results) :
            response.results[k].scores.combined >= req.threshold.value
       /\ Len(response.results) = Min(RequestedTopK(req), Cardinality(Passing(req)))
       /\ \A k \in 1..(Len(response.results) - 1) :
            response.results[k].scores.combined >= response.results[k + 1].scores.combined

NoModelLoaded ==
  /\ loadedModels = [path \in Paths |-> NoEntry]
  /\ loadCalls = 0
  /\ modelContexts = 0
  /\ embLoadCalls = 0
  /\ rerankerModel = 0
  /\ rerankLoadCalls = 0

\* C19: a retrieve request whose threshold is not a number in [0, 1] is rejected
\* before any embedding or model operation: no model is loaded, no query embedding
\* is computed, and the answer is a 400.
C19_InvalidThresholdRejectedFirst ==
  (req.endpoint \in {"query", "search"} /\ ThresholdInvalid(req.threshold))
    => /\ NoModelLoaded
       /\ queryEmbedding = <<>>
       /\ rpc = "responded" => response.status = 400

\* C20: when reranking ran, the reranked score of every returned chunk is the
\* score the ranking context gave that chunk's content.
C20_RerankedScoreOfSameChunk ==
  (Answered(200) /\ RerankRan)
    => \A k \in 1..Len(response.results) :
         response.results[k].scores.reranked = relevance[response.results[k].content]

\* The key the response is ordered by: the reranked score when reranking ran, the
\* combined score otherwise.
OrderingKey(result) ==
  IF RerankRan THEN result.scores.reranked ELSE result.scores.combined

\* C21: the results of a retrieve, from the body's chunks or from the table, are in
\* descending order of reranked score when reranking ran and of combined score
\* when it did not, and are at most topK.
C21_ResultsOrderedAndAtMostTopK ==
  Answered(200)
    => /\ Len(response.results) <= RequestedTopK(req)
       /\ \A k \in 1..(Len(response.results) - 1) :
            OrderingKey(response.results[k]) >= OrderingKey(response.results[k + 1])

\* Three candidates were reranked with different scores and two are returned.
C21_Witness ==
  /\ Answered(200)
  /\ RerankRan
  /\ Len(CandidatesOf(req)) = 3
  /\ Len(response.results) = 2
  /\ response.results[1].scores.reranked > response.results[2].scores.reranked

\* A request that passes the handler's validation of its fields.
WellFormed(request) ==
  /\ request.endpoint \in {"query", "search"}
  /\ request.query # ""
  /\ request.endpoint = "search" => ~ThresholdInvalid(request.threshold)

RerankerAcquired ==
  \/ Has(loadedModels, LoadModelPath(RerankerModelName, "reranker"))
  \/ rerankerModel # 0

\* C22: a retrieve whose candidate list is empty acquires no model and computes no
\* query embedding, and answers with an empty result list.
C22_EmptyCandidatesTouchNoModel ==
  (WellFormed(req) /\ CandidatesOf(req) = <<>>)
    => /\ NoModelLoaded
       /\ queryEmbedding = <<>>
       /\ rpc = "responded" => (response.status = 200 /\ response.results = <<>>)

\* C23: a retrieve with shouldRerank set that is answered with results has given
\* every returned chunk a reranked score: the rerank stage is never skipped.
C23_RerankNeverSkipped ==
  (Answered(200) /\ req.shouldRerank)
    => \A k \in 1..Len(response.results) :
         response.results[k].scores.reranked # NoScore

\* The ways output can be read as a rearrangement of some elements of input: the
\* position in input of every element of output, chunk for chunk.
Rearrangements(output, input) ==
  {f \in [1..Len(output) -> 1..Len(input)] :
     /\ \A k, l \in 1..Len(output) : k # l => f[k] # f[l]
     /\ \A k \in 1..Len(output) :
          /\ output[k].content = input[f[k]].content
          /\ output[k].scores.combined = input[f[k]].scores.combined}

\* Elements of output with equal keys are in the order they have in input.
KeepsOrderOfEqualKeys(keys, f) ==
  \A k, l \in 1..Len(keys) :
    (k < l /\ keys[k] = keys[l]) => f[k] < f[l]

RerankedOf(result) == result.scores.reranked

\* The chunks of the body as the map of findSimilarChunks scored them, in the
\* order of the body.
ScoredCandidates == MapScoreChunk(queryEmbedding, req.chunks).value

\* C24: in the in-memory retrieve, chunks of equal combined score leave the first
\* stage in the order of the request's chunks, and chunks of equal reranked score
\* leave the second stage in the order the first stage gave them.
C24_TiesKeepInputOrder ==
  /\ (req.endpoint = "query" /\ rpc \in {"found_similar", "ranking"})
       => \E f \in Rearrangements(similarChunks, ScoredCandidates) :
            KeepsOrderOfEqualKeys([k \in 1..Len(similarChunks) |-> CombinedOf(similarChunks[k])], f)
  /\ (req.endpoint = "query" /\ Answered(200) /\ RerankRan)
       => \E f \in Rearrangements(response.results, similarChunks) :
            KeepsOrderOfEqualKeys([k \in 1..Len(response.results) |->
                                     RerankedOf(response.results[k])], f)

\* Two different chunks of equal combined score were given equal reranked scores
\* and both are returned.
C24_Witness ==
  /\ req.endpoint = "query"
  /\ Answered(200)
  /\ RerankRan
  /\ Len(response.results) = 2
  /\ response.results[1].content # response.results[2].content
  /\ response.results[1].scores.combined = response.results[2].scores.combined
  /\ response.results[1].scores.reranked = response.results[2].scores.reranked

\* What the in-memory first stage returns for the rows of the table as chunks of a
\* body, with the query embedding and topK of the search request.
InMemoryStage1 == Take(findSimilarChunks(queryEmbedding, dataset).value, req.top_k)

\* C25: the first stage of the persisted retrieve returns the chunks, with the
\* scores and in the order, that the in-memory first stage returns for the same
\* candidates, query embedding, threshold and topK.
C25_StoreStage1EqualsInMemory ==
  (req.endpoint = "search" /\ (rpc = "ranking" \/ Answered(200)))
    => /\ Len(similarChunks) = Len(InMemoryStage1)
       /\ \A k \in 1..Len(similarChunks) :
            /\ similarChunks[k].content = InMemoryStage1[k].content
            /\ similarChunks[k].scores.content = InMemoryStage1[k].scores.content
            /\ similarChunks[k].scores.context = InMemoryStage1[k].scores.context
            /\ similarChunks[k].scores.combined = InMemoryStage1[k].scores.combined

\* C26: a request that fails because the file of the model it acquires does not
\* exist is answered 404, and one that fails on another load error is answered 500.
C26_ModelNotFoundAnswered404 ==
  rpc = "responded"
    => /\ response.error = ErrorMessage("ENOENT") => response.status = 404
       /\ response.error = ErrorMessage("error") => response.status = 500

(***************************************************************************)
(* Properties of the store request                                         *)
(***************************************************************************)
\* C27: once the store request has been answered 500, no chunk of its document
\* is embedded or inserted.
C27_FailureAbortsSiblings ==
  [][storeResponse = 500
       => /\ insertedChunks' = insertedChunks
          /\ \A c \in StoreChunks : chunkPc[c] \in {"embed_content", "embed_context", "insert"}
                                      => chunkPc'[c] \in {chunkPc[c], "failed"}]_vars

\* C28: whenever sweep or release removes an entry from the cache, the dispose
\* of the handle the removed entry holds has completed.
C28_RemovedEntryIsDisposed ==
  [][\A path \in Paths :
       Has(loadedModels, path) /\ ~Has(loadedModels', path)
         => hstate'[loadedModels[path].model] = "disposed"]_vars

\* The step in which loadModel of handler p finds its key in the cache.
HitBy(p) == pc[p] = "idle" /\ pc'[p] = "done" /\ local'[p].fn = "loadModel"

\* What a hit does: no load is invoked, the handle of the entry is returned, the
\* entry's lastUsed becomes the current time and every other entry is unchanged.
HitFrame ==
  \A p \in Procs :
    HitBy(p) =>
      LET path == local'[p].path IN
      /\ loadCalls' = loadCalls
      /\ ret'[p] = CtxRet(loadedModels[path].model)
      /\ loadedModels'[path] = [loadedModels[path] EXCEPT !.lastUsed = now]
      /\ \A other \in Paths \ {path} : loadedModels'[other] = loadedModels[other]

\* lastUsed of the entry of a key does not decrease while the key stays cached.
LastUsedNotDecreasing ==
  \A path \in Paths :
    Has(loadedModels, path) /\ Has(loadedModels', path)
      => loadedModels'[path].lastUsed >= loadedModels[path].lastUsed

\* C29: a hit invokes no load, returns the existing handle and sets the entry's
\* lastUsed to the current time, changing no other entry; and the lastUsed of an
\* entry never decreases.
C29_HitRefreshesAndLastUsedNeverDecreases ==
  [][HitFrame /\ LastUsedNotDecreasing]_vars

\* The second stage has begun: the reranker model is acquired, rankAndSort has
\* been called or it has returned.
Stage2Begun ==
  \/ RerankerAcquired
  \/ rpc = "ranking"
  \/ RerankRan

\* The first stage has ended: the query embedding is there and similarChunks is
\* every candidate scored and sorted (in memory), or the rows of the select
\* (over the table).
Stage1Ended ==
  /\ queryEmbedding # <<>>
  /\ IF req.endpoint = "query"
       THEN LET found == findSimilarChunks(queryEmbedding, req.chunks) IN
            ~found.threw /\ similarChunks = found.value
       ELSE \E rows \in SelectResults(dataset, queryEmbedding, req.threshold, req.top_k) :
              similarChunks = [k \in 1..Len(rows) |-> SearchResult(rows[k])]

\* C30: within a retrieve, the reranker is acquired and invoked only after every
\* candidate has its combined score and the candidates are sorted; the documents
\* it is given are those of the sorted first-stage output.
C30_Stage2AfterStage1 ==
  Stage2Begun
    => /\ Stage1Ended
       /\ rerankInput = [k \in 1..Len(similarChunks) |-> similarChunks[k].content]

C30_Witness ==
  /\ req.endpoint = "query"
  /\ rpc = "ranking"
  /\ RerankerAcquired
  /\ Len(similarChunks) = 3
  /\ similarChunks[1].scores.combined > similarChunks[3].scores.combined
  /\ CandidatesOf(req)[1].content # similarChunks[1].content

\* C31: the documents handed to rankAndSort are the contents of the first-stage
\* chunks that passed the threshold, cut to topK, in first-stage order; they are
\* never more than topK.
C31_RerankerGivenSurvivors ==
  rpc = "ranking"
    => /\ Len(rerankInput) <= RequestedTopK(req)
       /\ \A k \in 1..Len(rerankInput) : rerankInput[k] = similarChunks[k].content
       /\ ~ThresholdInvalid(req.threshold)
            => /\ Len(rerankInput) = Min(RequestedTopK(req), Cardinality(Passing(req)))
               /\ \A k \in 1..Len(rerankInput) :
                    similarChunks[k].scores.combined >= req.threshold.value

\* The chunks of the store request whose generateContext call is in flight.
ContextCallsInFlight == {c \in StoreChunks : chunkPc[c] = "generate_context"}

\* C32: within a store request at most one generateContext call is in flight, and
\* the call for a chunk starts only after the call for the chunk before it has
\* returned.
C32_ContextGenerationSequential ==
  /\ Cardinality(ContextCallsInFlight) <= 1
  /\ \A c \in StoreChunks :
       (c > 1 /\ chunkPc[c] \in {"generate_context", "embed_context", "insert", "done"}
              /\ storeReq.generateContexts)
         => chunkPc[c - 1] \notin {"embed_content", "generate_context"}

Stride == chunkSize - overlap

\* The tokens [from, to) of the token sequence, joined by single spaces.
RECURSIVE TokensJoined(_, _)
TokensJoined(from, to) ==
  IF from >= to THEN <<>>
  ELSE IF from + 1 = to THEN words[from + 1]
  ELSE words[from + 1] \o <<" ">> \o TokensJoined(from + 1, to)

\* C34: for 0 <= overlap < chunkSize, the k-th chunk (from 0) that splitIntoChunks
\* has produced is the tokens [k*s, min(k*s + chunkSize, N)) joined by single
\* spaces, with start_idx = k*s and end_idx = min(k*s + chunkSize, N).
C34_KthChunkIsKthWindow ==
  (0 <= overlap /\ overlap < chunkSize)
    => \A k \in 0..(Len(chunks) - 1) :
         LET from == k * Stride
             to == Min(k * Stride + chunkSize, Len(words)) IN
         /\ chunks[k + 1].content = TokensJoined(from, to)
         /\ chunks[k + 1].metadata.start_idx = from
         /\ chunks[k + 1].metadata.end_idx = to

C34_Witness ==
  /\ Returned
  /\ overlap > 0
  /\ Len(chunks) = 3
  /\ chunks[2].metadata.start_idx = 1
  /\ chunks[2].content = <<"a", " ", "a">>
  /\ ChunkLength(chunks[3]) = 1

\* ceil(n / d) for d > 0
CeilDiv(n, d) == (n + d - 1) \div d

\* C35: for chunkSize >= 1 and 0 <= overlap < chunkSize the loop of splitIntoChunks
\* ends: after j iterations i = j*s, it runs no more than ceil(N / s) times, and
\* once it has ended there are exactly ceil(N / s) chunks.
C35_TerminatesWithCeilChunks ==
  (chunkSize >= 1 /\ 0 <= overlap /\ overlap < chunkSize)
    => /\ cpc = "split_loop"
            => /\ i = Len(chunks) * Stride
               /\ Len(chunks) <= CeilDiv(Len(words), Stride)
       /\ cpc \in {"split_done", "generate_context", "returned", "failed"}
            => Len(chunks) = CeilDiv(Len(words), Stride)

C35_Witness ==
  /\ cpc = "split_done"
  /\ overlap = 1
  /\ chunkSize = 3
  /\ Len(words) = 3
  /\ Len(chunks) = 2

\* No loadModel, unloadModel or sweep pass is suspended in an await.
Quiescent ==
  /\ \A p \in Procs : pc[p] \in {"idle", "done"}
  /\ \A s \in Sweeps : spc[s] # "dispose"

\* Handle h is the model of the cache entry of the path it was loaded from.
StoredUnderItsKey(h) ==
  Has(loadedModels, hpath[h]) /\ loadedModels[hpath[h]].model = h

\* C36: once every loadModel, unloadModel and sweep pass has completed, every
\* handle llama.loadModel has returned is stored in the cache under its key or
\* has been disposed.
C36_NoHandleLeaked ==
  Quiescent
    => \A h \in Handles :
         hstate[h] # "none" => (StoredUnderItsKey(h) \/ hstate[h] = "disposed")

\* Handler p has got handle h from loadModel and has not finished with it: it
\* is awaiting the embedding, ranking or completion call it acquired it for.
InUseBy(p, h) == pc[p] = "done" /\ ret[p] = CtxRet(h)

\* C37: while a request is awaiting a call on a handle it acquired, no release and
\* no sweep pass begins the disposal of that handle.
C37_NotDisposedWhileInUse ==
  [][\A p \in Procs, h \in Handles :
       (InUseBy(p, h) /\ hstate[h] = "loaded" /\ pc'[p] = pc[p])
         => hstate'[h] = "loaded"]_vars

\* The keys under which loadModel has cached a model it was given as `modelName`.
AcquiredAs(modelName) ==
  {path \in {LoadModelPath(modelName, t) : t \in ModelType} : Has(loadedModels, path)}

\* C38: unloadModel called with the name string a cached model was acquired with
\* finds that model's entry, and when its dispose has resolved it returns true
\* with the entry removed.
C38_ReleaseFindsWhatAcquireStored ==
  [][\A p \in Procs :
       /\ (UnloadModelCalled(p) /\ AcquiredAs(local'[p].name) # {})
            => /\ pc'[p] = "unload_dispose"
               /\ local'[p].path \in AcquiredAs(local'[p].name)
       /\ (pc[p] = "unload_dispose" /\ pc'[p] = "done" /\ ret'[p].kind = "bool")
            => /\ ret'[p] = BoolRet(TRUE)
               /\ ~Has(loadedModels', local[p].path)
    ]_vars

\* A step of pass s out of its awaited dispose in which that dispose has not
\* completed: the dispose was rejected.
SweepDisposeFails(s) ==
  /\ spc[s] = "dispose"
  /\ <<spc'[s], slocal'[s]>> # <<spc[s], slocal[s]>>
  /\ hstate'[slocal[s].model] # "disposed"

\* C39: when the dispose a sweep pass awaits is rejected, the pass stops there:
\* it removes no entry (the failed one stays), invokes no further dispose, and
\* does not put back what it removed.
C39_FailedDisposeStopsThePass ==
  [][\A s \in Sweeps :
       SweepDisposeFails(s)
         => /\ spc'[s] = "failed"
            /\ loadedModels' = loadedModels
            /\ hstate' = hstate
            /\ disposeCalls' = disposeCalls]_vars

C39_Witness ==
  \E s \in Sweeps, failed \in Paths, later \in Paths :
    /\ spc[s] = "failed"
    /\ IsStale(loadedModels, failed, now, DefaultMaxAgeMs)
    /\ IsStale(loadedModels, later, now, DefaultMaxAgeMs)
    /\ loadedModels[failed].seq < loadedModels[later].seq
    /\ hstate[loadedModels[failed].model] = "disposing"
    /\ hstate[loadedModels[later].model] = "loaded"
    /\ disposeCalls[loadedModels[later].model] = 0

=============================================================================
